---- MODULE Spec2Model ----
(***************************************************************************)
(* A model of the front end of the yep compiler: the tokenizer             *)
(* (crates/lexer), the precedence-climbing expression parser               *)
(* (crates/wamos-parser/src/parser/expr.rs) and the validator              *)
(* (crates/parser/src/validation.rs).                                      *)
(*                                                                         *)
(* Source text is a sequence of one-character strings.  Offsets are        *)
(* 0-based as in the source: the character at offset p is text[p + 1].     *)
(***************************************************************************)
EXTENDS Integers, Sequences, FiniteSets, TLC

VARIABLES
    text,       \* the input of lex(): a sequence of characters
    pos,        \* offset of the scanner (logos Lexer) in text
    was_word,   \* lex(): was the previously pushed token word-like
    v,          \* lex(): the token vector being built
    lpc,        \* position of lex(): "scan" (in the for loop) or "done"
    given,      \* the literal that was rendered into text (number specs only)
    parts,      \* the fragment list handed to precedence climbing
    ppc,        \* position of parse_expr: "parse", "validate" or "done"
    parsed,     \* the result of parse_expr on parts
    validated,  \* the result of the validator on the parsed expression
    lexer,      \* the parser's Lexer: the token slice left, and the calls made on it
    items,      \* parse_items: the result of the `while let` loop over Item::parse
    result,     \* what finish() and parse() return; what a Lexer method returned
    cpc         \* position of parse(): "idle", "items", "finished" or "done"

vars == <<text, pos, was_word, v, lpc, given, parts, ppc, parsed, validated,
          lexer, items, result, cpc>>

lexVars == <<text, pos, was_word, v, lpc, given>>
exprVars == <<parts, ppc, parsed, validated>>
parseVars == <<lexer, items, result, cpc>>

(***************************************************************************)
(* Bounds                                                                  *)
(***************************************************************************)
MaxLen == 3

(***************************************************************************)
(* Character classes                                                       *)
(***************************************************************************)
Lowercase == {"a","b","c","d","e","f","g","h","i","j","k","l","m",
              "n","o","p","q","r","s","t","u","v","w","x","y","z"}

Uppercase == {"A","B","C","D","E","F","G","H","I","J","K","L","M",
              "N","O","P","Q","R","S","T","U","V","W","X","Y","Z"}

Digit == {"0","1","2","3","4","5","6","7","8","9"}

DecDigits == <<"0","1","2","3","4","5","6","7","8","9">>
LowerLetters == <<"a","b","c","d","e","f","g","h","i","j","k","l","m",
              "n","o","p","q","r","s","t","u","v","w","x","y","z">>
UpperLetters == <<"A","B","C","D","E","F","G","H","I","J","K","L","M",
              "N","O","P","Q","R","S","T","U","V","W","X","Y","Z">>

\* char::to_digit(radix): the digit's value, or -1 for None
ToDigit(c, radix) ==
    LET val == IF c \in Digit
                  THEN (CHOOSE i \in 1..10 : DecDigits[i] = c) - 1
               ELSE IF c \in Lowercase
                  THEN 9 + (CHOOSE i \in 1..26 : LowerLetters[i] = c)
               ELSE IF c \in Uppercase
                  THEN 9 + (CHOOSE i \in 1..26 : UpperLetters[i] = c)
               ELSE -1
    IN IF val >= 0 /\ val < radix THEN val ELSE -1

\* [ \t\n\f]
\* a line break is no whitespace
WsCharsBlank == {" ", "\t", "\f"}

WsChars == {" ", "\t", "\n", "\f"}

\* the #[token(...)] single-character punctuation of IToken::Punct
PunctChars == {".", ",", ":", ";", "=", "&", "|", "\\", "@", "_",
               "(", ")", "[", "]", "{", "}"}

\* [a-zA-Z_+\-*/%~<>=!?]
WordStart == Lowercase \cup Uppercase \cup
             {"_","+","-","*","/","%","~","<",">","=","!","?"}

\* [a-zA-Z_+\-*/%~<>=!?0-9]
WordCont == WordStart \cup Digit

\* [a-zA-Z_+\-*/%~<>=!0-9]  (the integer part of a number run: no '?')
NumCont == (WordStart \ {"?"}) \cup Digit

\* [a-zA-Z_+\-*/%~<>=!?0-9]  (after the '.')
FracCont == WordCont

(***************************************************************************)
(* The scanner: logos' longest match over the IToken patterns              *)
(***************************************************************************)
At(t, p) == IF p >= 0 /\ p < Len(t) THEN t[p + 1] ELSE "EOT"

RECURSIVE RunLen(_, _, _)
\* length of the maximal run of characters of S starting at offset p
RunLen(t, p, S) ==
    IF At(t, p) \in S THEN 1 + RunLen(t, p + 1, S) ELSE 0

RECURSIVE LineLen(_, _)
\* length of the maximal run of non-newline characters (the regex `.*`)
LineLen(t, p) ==
    IF p < Len(t) /\ t[p + 1] # "\n" THEN 1 + LineLen(t, p + 1) ELSE 0

RECURSIVE MatchWs(_, _)
\* ([ \t\n\f]+|#.*)+
MatchWs(t, p) ==
    IF At(t, p) \in WsChars THEN 1 + MatchWs(t, p + 1)
    ELSE IF At(t, p) = "#"
        THEN LET n == 1 + LineLen(t, p + 1) IN n + MatchWs(t, p + n)
    ELSE 0

MatchPunct(t, p) == IF At(t, p) \in PunctChars THEN 1 ELSE 0

\* \.\d[a-zA-Z_+\-*/%~<>=!?0-9]*
MatchLeadingDot(t, p) ==
    IF At(t, p) = "." /\ At(t, p + 1) \in Digit
        THEN 2 + RunLen(t, p + 2, FracCont)
        ELSE 0

\* the number pattern stops at the first character that is no decimal digit
MatchNumberDigitsOnly(t, p) ==
    LET s == IF At(t, p) \in {"+", "-"} THEN 1 ELSE 0
    IN IF At(t, p + s) \in Digit
          THEN LET n == s + 1 + RunLen(t, p + s + 1, Digit \cup {"_"})
               IN n + MatchLeadingDot(t, p + n)
          ELSE 0

\* [+-]?\d[a-zA-Z_+\-*/%~<>=!0-9]*(\.\d[a-zA-Z_+\-*/%~<>=!?0-9]*)?
MatchNumber(t, p) ==
    LET s == IF At(t, p) \in {"+", "-"} THEN 1 ELSE 0
    IN IF At(t, p + s) \in Digit
          THEN LET n == s + 1 + RunLen(t, p + s + 1, NumCont)
               IN n + MatchLeadingDot(t, p + n)
          ELSE 0

RECURSIVE StrBody(_, _)
\* ([^"\\]|\\.)*" from offset p: offset just past the closing quote, or -1
StrBody(t, p) ==
    IF p >= Len(t) THEN -1
    ELSE IF t[p + 1] = "\"" THEN p + 1
    ELSE IF t[p + 1] = "\\"
        THEN IF p + 1 < Len(t) /\ t[p + 2] # "\n" THEN StrBody(t, p + 2) ELSE -1
    ELSE StrBody(t, p + 1)

\* "([^"\\]|\\.)*"
MatchString(t, p) ==
    IF At(t, p) = "\"" /\ StrBody(t, p + 1) >= 0 THEN StrBody(t, p + 1) - p ELSE 0

\* [a-zA-Z_+\-*/%~<>=!?][a-zA-Z_+\-*/%~<>=!?0-9]*
MatchWord(t, p) ==
    IF At(t, p) \in WordStart THEN 1 + RunLen(t, p + 1, WordCont) ELSE 0

Max2(a, b) == IF a >= b THEN a ELSE b

\* The IToken logos yields at offset p: the longest match; on equal length the
\* literal tokens and the priority = 2 number pattern win over Word
\* (priority = 1).  len = 0 stands for IToken::Error.
NextIToken(t, p) ==
    LET ws   == MatchWs(t, p)
        pu   == MatchPunct(t, p)
        nu   == Max2(MatchNumber(t, p), MatchLeadingDot(t, p))
        st   == MatchString(t, p)
        wo   == MatchWord(t, p)
        best == Max2(ws, Max2(pu, Max2(nu, Max2(st, wo))))
    IN IF best = 0 THEN [kind |-> "Error", len |-> 0]
       ELSE IF ws = best THEN [kind |-> "Ws", len |-> ws]
       ELSE IF pu = best THEN [kind |-> "Punct", len |-> pu]
       ELSE IF nu = best THEN [kind |-> "NumberLit", len |-> nu]
       ELSE IF st = best THEN [kind |-> "StringLit", len |-> st]
       ELSE [kind |-> "Word", len |-> wo]

\* The lengths an IToken::Error may have.  A character that starts no pattern
\* is one error token.  After a '"' that no closing quote follows, the
\* scanner has read on before it failed, and how much of that the error
\* token covers is the generated automaton's business: any length.
ErrorLens(t, p) ==
    IF At(t, p) = "\"" THEN 1..(Len(t) - p) ELSE {1}

Slice(t, from, to) == SubSeq(t, from + 1, to)

(***************************************************************************)
(* 64-bit checked arithmetic.  A magnitude is a sequence of NLimbs limbs   *)
(* of LimbBits bits, least significant first; an integer type is given by  *)
(* the largest magnitude it holds on the positive and on the negative      *)
(* side.                                                                   *)
(***************************************************************************)
IntBits == 64
LimbBits == 4 * 4
LimbBase == 2 ^ LimbBits
NLimbs == IntBits \div LimbBits

ZeroMag == [i \in 1..NLimbs |-> 0]

\* 2^bits - 1
OnesMag(bits) ==
    [i \in 1..NLimbs |->
        IF bits >= LimbBits * i THEN LimbBase - 1
        ELSE IF bits > LimbBits * (i - 1) THEN 2 ^ (bits - LimbBits * (i - 1)) - 1
        ELSE 0]

\* 2^bits
PowMag(bits) ==
    [i \in 1..NLimbs |->
        IF bits >= LimbBits * (i - 1) /\ bits < LimbBits * i
            THEN 2 ^ (bits - LimbBits * (i - 1))
            ELSE 0]

SmallMag(n) == [i \in 1..NLimbs |-> IF i = 1 THEN n ELSE 0]

I64 == [maxPos |-> OnesMag(IntBits - 1), maxNeg |-> PowMag(IntBits - 1)]
U64 == [maxPos |-> OnesMag(IntBits), maxNeg |-> ZeroMag]
I32 == [maxPos |-> OnesMag(31), maxNeg |-> PowMag(31)]

RECURSIVE MulAddFrom(_, _, _, _)
\* mag * k + c from limb i on: NLimbs limbs followed by the carry out
MulAddFrom(mag, i, k, c) ==
    IF i > Len(mag) THEN <<c>>
    ELSE LET x == mag[i] * k + c
         IN <<x % LimbBase>> \o MulAddFrom(mag, i + 1, k, x \div LimbBase)

RECURSIVE GreaterFrom(_, _, _)
\* a > b, comparing from limb i downwards
GreaterFrom(a, b, i) ==
    IF i = 0 THEN FALSE
    ELSE IF a[i] # b[i] THEN a[i] > b[i]
    ELSE GreaterFrom(a, b, i - 1)

MagGreater(a, b) == GreaterFrom(a, b, NLimbs)

\* wrapping_mul / wrapping_add: the result modulo 2^IntBits, never None
WrappingStep(ty, negative, mag, k, c) ==
    [some |-> TRUE, mag |-> SubSeq(MulAddFrom(mag, 1, k, c), 1, NLimbs)]

\* checked_mul / checked_add / checked_sub of the Int trait: the accumulator
\* holds -mag when `negative`, else mag.  Returns "none" on overflow.
CheckedStep(ty, negative, mag, k, c) ==
    LET r == MulAddFrom(mag, 1, k, c)
        m == SubSeq(r, 1, NLimbs)
        limit == IF negative THEN ty.maxNeg ELSE ty.maxPos
    IN IF r[NLimbs + 1] # 0 \/ MagGreater(m, limit)
          THEN [some |-> FALSE, mag |-> ZeroMag]
          ELSE [some |-> TRUE, mag |-> m]

Ok(x) == [ok |-> TRUE, err |-> "", ch |-> ""] @@ x
Err(e, c) == [ok |-> FALSE, err |-> e, ch |-> c]

\* the digit is added before the accumulator is multiplied
ParseDigitAddFirst(ty, negative, radix, acc, c) ==
    IF ~acc.ok \/ c = "_" THEN acc
    ELSE LET d == ToDigit(c, radix)
         IN IF d < 0 THEN Err("InvalidCharInNum", c)
            ELSE LET a == CheckedStep(ty, negative, acc.mag, 1, d)
                     m == CheckedStep(ty, negative, a.mag, radix, 0)
                 IN IF ~a.some \/ ~m.some THEN Err("NumberOverflow", "")
                    ELSE Ok([mag |-> m.mag])

\* one iteration of the loop of parse_int_digits on the character c; acc is
\* the accumulator, or the error the loop has already returned with
ParseDigit(ty, negative, radix, acc, c) ==
    IF ~acc.ok \/ c = "_" THEN acc
    ELSE LET m == CheckedStep(ty, negative, acc.mag, radix, 0)
             d == ToDigit(c, radix)
         IN IF ~m.some THEN Err("NumberOverflow", "")
            ELSE IF d < 0 THEN Err("InvalidCharInNum", c)
            ELSE LET a == CheckedStep(ty, negative, m.mag, 1, d)
                 IN IF ~a.some THEN Err("NumberOverflow", "")
                    ELSE Ok([mag |-> a.mag])

RECURSIVE ParseIntDigitsIn(_, _, _, _, _, _, _)
\* the loop of parse_int_digits over chars[lo..hi], in order, from acc: the
\* first half's result a is the accumulator the second half starts from
ParseIntDigitsIn(ty, negative, chars, lo, hi, radix, acc) ==
    IF lo > hi THEN acc
    ELSE IF lo = hi THEN ParseDigit(ty, negative, radix, acc, chars[lo])
    ELSE LET mid == (lo + hi) \div 2
         IN CHOOSE r \in {ParseIntDigitsIn(ty, negative, chars, mid + 1, hi, radix, a) :
                             a \in {ParseIntDigitsIn(ty, negative, chars, lo, mid, radix, acc)}} : TRUE

\* parse_int_digits::<N>(negative, text, radix)
ParseIntDigits(ty, negative, chars, radix) ==
    ParseIntDigitsIn(ty, negative, chars, 1, Len(chars), radix, Ok([mag |-> ZeroMag]))

(***************************************************************************)
(* The numeric sub-lexer (numbers.rs)                                      *)
(***************************************************************************)
\* nothing is trimmed
TrimStartNothing(s, c) == s

RECURSIVE TrimStart(_, _)
\* str::trim_start_matches(c)
TrimStart(s, c) ==
    IF Len(s) > 0 /\ s[1] = c THEN TrimStart(Tail(s), c) ELSE s

RECURSIVE TrimEnd(_, _)
\* str::trim_end_matches(c)
TrimEnd(s, c) ==
    IF Len(s) > 0 /\ s[Len(s)] = c THEN TrimEnd(SubSeq(s, 1, Len(s) - 1), c) ELSE s

RECURSIVE Filter(_, _)
\* chars().filter(|&c| c != x).collect()
Filter(s, x) ==
    IF Len(s) = 0 THEN <<>>
    ELSE IF s[1] = x THEN Filter(Tail(s), x)
    ELSE <<s[1]>> \o Filter(Tail(s), x)

\* str::find(|c| c == 'e' || c == 'E'): 0-based offset, or -1
FindExp(s) ==
    IF \E i \in 1..Len(s) : s[i] \in {"e", "E"}
        THEN (CHOOSE i \in 1..Len(s) :
                 s[i] \in {"e", "E"} /\ \A j \in 1..(i - 1) : s[j] \notin {"e", "E"}) - 1
        ELSE -1

IsZeroMag(m) == \A i \in 1..NLimbs : m[i] = 0

\* the value of a magnitude known to fit 31 bits
SmallValue(m) == m[1] + LimbBase * m[2]

\* parse_exp(text) -> Result<i32, LexError>
ParseExp(s) ==
    LET c == IF Len(s) > 0 THEN s[1] ELSE "EOT"
        r == IF c = "+" THEN ParseIntDigits(I32, FALSE, Tail(s), 10)
             ELSE IF c = "-" THEN ParseIntDigits(I32, TRUE, Tail(s), 10)
             ELSE ParseIntDigits(I32, FALSE, s, 10)
    IN IF r.ok THEN Ok([neg |-> (c = "-"), mag |-> r.mag]) ELSE r

\* What <f64 as FromStr> accepts of a mantissa that follows a digit or a '.':
\* an optional sign, then digits with at most one '.', and a digit somewhere.
\* (The words inf, infinity and nan cannot occur: a number-shaped run starts,
\* after its sign, with a digit or with ".<digit>".)
ValidMantissa(s) ==
    LET body == IF Len(s) > 0 /\ s[1] \in {"+", "-"} THEN Tail(s) ELSE s
    IN /\ \A i \in 1..Len(body) : body[i] \in Digit \cup {"."}
       /\ Cardinality({i \in 1..Len(body) : body[i] = "."}) <= 1
       /\ \E i \in 1..Len(body) : body[i] \in Digit

\* The decimal exponent of the leading significant digit of a valid mantissa,
\* and its first two significant digits (0 when there is none).
Significant(s) ==
    LET body == IF Len(s) > 0 /\ s[1] \in {"+", "-"} THEN Tail(s) ELSE s
        dot  == IF \E i \in 1..Len(body) : body[i] = "."
                   THEN CHOOSE i \in 1..Len(body) : body[i] = "."
                   ELSE Len(body) + 1
        nz   == {i \in 1..Len(body) : body[i] \in Digit \ {"0"}}
        f    == IF nz = {} THEN 0 ELSE CHOOSE i \in nz : \A j \in nz : i <= j
        rest == IF f = 0 THEN <<>> ELSE Filter(SubSeq(body, f + 1, Len(body)), ".")
    IN [zero   |-> nz = {},
        exp10  |-> IF f = 0 THEN 0 ELSE IF f < dot THEN dot - f - 1 ELSE dot - f,
        first  |-> IF f = 0 THEN 0 ELSE ToDigit(body[f], 10),
        second |-> IF Len(rest) = 0 THEN 0 ELSE ToDigit(rest[1], 10)]

\* f64::is_finite of the parsed value of `mantissa`e`exp`: the largest f64 is
\* 1.7976931348623157e308.  (Exact for mantissas whose third and later
\* significant digits do not decide; exponents are i32.)
IsFinite(mantissa, expNeg, expMag) ==
    LET sg == Significant(mantissa)
        big == expMag[2] > 0 \/ expMag[1] > 4 * 308
        e  == IF big THEN 4 * 308 ELSE SmallValue(expMag)
        top == (IF expNeg THEN 0 - e ELSE e) + sg.exp10
    IN \/ sg.zero
       \/ top < 308
       \/ top = 308 /\ (sg.first = 1 /\ sg.second <= 7)

FloatTok == [variant |-> "Float", neg |-> FALSE, mag |-> ZeroMag]

\* parse_at_dot(text) -> Result<f64, LexError>: whether it parses
ParseAtDot(s) == ValidMantissa(Filter(s, "_"))

\* leading_dot(input)
LeadingDot(input) ==
    LET exp == FindExp(input)
    IN IF exp >= 0
          THEN LET e == ParseExp(SubSeq(input, exp + 2, Len(input)))
                   m == SubSeq(input, 1, exp)
               IN IF ~e.ok THEN e
                  ELSE IF ~ParseAtDot(m) THEN Err("InvalidNum", "")
                  \* num * 10f64.powi(exp): powi is inf from 1e309 on, and 0 * inf is NaN
                  ELSE IF ~e.neg /\ (e.mag[2] > 0 \/ e.mag[1] > 308)
                      THEN Err("NumberOverflow", "")
                  ELSE Ok(FloatTok)
          ELSE IF ParseAtDot(input) THEN Ok(FloatTok) ELSE Err("InvalidNum", "")

\* float(input)
Float(input0) ==
    LET input == TrimEnd(input0, "_")
        exp == FindExp(input)
    IN IF Len(input) > 0 /\ input[Len(input)] \in {"e", "E", "."}
          THEN Err("InvalidNum", "")
       ELSE IF exp >= 0
          THEN LET e == ParseExp(SubSeq(input, exp + 2, Len(input)))
                   m == Filter(SubSeq(input, 1, exp), "_")
               IN IF ~e.ok THEN e
                  ELSE IF ~ValidMantissa(m) THEN Err("InvalidNum", "")
                  ELSE IF ~IsFinite(m, e.neg, e.mag) THEN Err("NumberOverflow", "")
                  ELSE Ok(FloatTok)
       ELSE LET m == Filter(input, "_")
            IN IF ~ValidMantissa(m) THEN Err("InvalidNum", "")
               ELSE IF ~IsFinite(m, FALSE, ZeroMag) THEN Err("NumberOverflow", "")
               ELSE Ok(FloatTok)

\* One arm of int_with_radix: skip the sign and the radix prefix, trim leading
\* underscores, reject the empty rest, accumulate.
IntArm(input, skip, variant, ty, negative, radix) ==
    LET txt == TrimStart(SubSeq(input, skip + 1, Len(input)), "_")
        r == ParseIntDigits(ty, negative, txt, radix)
    IN IF Len(txt) = 0 THEN Err("InvalidNum", "")
       ELSE IF ~r.ok THEN r
       ELSE Ok([variant |-> variant,
                neg |-> negative /\ ~IsZeroMag(r.mag),
                mag |-> r.mag])

\* a '+' sign is skipped and the literal is read as Int
IntWithRadixPlusAsInt(input, radix_width, radix) ==
    LET c == IF Len(input) > 0 THEN input[1] ELSE "EOT"
    IN IF c = "-" THEN IntArm(input, radix_width + 1, "Int", I64, TRUE, radix)
       ELSE IF c = "+" THEN IntArm(input, radix_width + 1, "Int", I64, FALSE, radix)
       ELSE IntArm(input, radix_width, "Int", I64, FALSE, radix)

\* int_with_radix(input, radix_width, radix)
IntWithRadix(input, radix_width, radix) ==
    LET c == IF Len(input) > 0 THEN input[1] ELSE "EOT"
    IN IF c = "-" THEN IntArm(input, radix_width + 1, "Int", I64, TRUE, radix)
       ELSE IF c = "+" THEN IntArm(input, radix_width + 1, "UInt", U64, FALSE, radix)
       ELSE IntArm(input, radix_width, "Int", I64, FALSE, radix)

Hex(input) == IntWithRadix(input, 2, 16)
Oct(input) == IntWithRadix(input, 2, 8)
Bin(input) == IntWithRadix(input, 2, 2)
Dec(input) == IntWithRadix(input, 0, 10)

\* parse_number(input), before into_token_data
ParseNumber(input) ==
    IF Len(input) > 0 /\ input[1] = "." THEN LeadingDot(input)
    ELSE LET without_sign ==
                 IF Len(input) > 0 /\ input[1] \in {"+", "-"} THEN Tail(input) ELSE input
             x == IF Len(without_sign) >= 2 /\ without_sign[1] = "0"
                     THEN without_sign[2] ELSE "EOT"
         IN IF x \in {"x", "X"} THEN Hex(input)
            ELSE IF x \in {"b", "B"} THEN Bin(input)
            ELSE IF x \in {"o", "O"} THEN Oct(input)
            ELSE IF \E i \in 1..Len(without_sign) : without_sign[i] \in {".", "e", "E"}
                THEN Float(input)
            ELSE Dec(input)

(***************************************************************************)
(* Tokens and lex() (tokens.rs)                                            *)
(***************************************************************************)
\* parse_keyword's table
Keywords == {<<"a","n","d">>, <<"m","a","t","c","h">>, <<"c","l","a","s","s">>,
             <<"e","n","u","m">>, <<"u","s","e">>, <<"f","o","r">>, <<"f","u","n">>,
             <<"i","m","p","l">>, <<"l","e","t">>, <<"n","o","t">>, <<"o","r">>,
             <<"t","y","p","e">>, <<"v","a","r">>}

\* Token data.  tag is the TokenData variant; sub is the Punctuation
\* character, the NumberLiteral variant or the LexError; txt is the text of an
\* Ident / UpperIdent / Operator / Keyword / StringLit; neg and mag are the
\* value of an Int / UInt; ch is the character of InvalidCharInNum.
Data(tag, sub, txt) ==
    [tag |-> tag, sub |-> sub, txt |-> txt, neg |-> FALSE, mag |-> ZeroMag, ch |-> ""]

ErrorData(e, c) == [Data("Error", e, <<>>) EXCEPT !.ch = c]

NumberData(n) == [Data("NumberLit", n.variant, <<>>) EXCEPT !.neg = n.neg, !.mag = n.mag]

\* into_token_data(res)
IntoTokenData(r) == IF r.ok THEN NumberData(r) ELSE ErrorData(r.err, r.ch)

\* into_token_data(parse_number(input))
NumberToken(input) == IntoTokenData(ParseNumber(input))

\* the IToken::Word arm of lex()
WordToken(word) ==
    IF word[1] \in Lowercase
        THEN IF word \in Keywords THEN Data("Keyword", "", word)
                                  ELSE Data("Ident", "", word)
    ELSE IF word[1] \in Uppercase THEN Data("UpperIdent", "", word)
    ELSE IF \E i \in 1..Len(word) : word[i] \in Digit THEN ErrorData("InvalidNum", "")
    ELSE Data("Operator", "", word)

\* the `let data = match t { ... }` of lex()
TokenOf(kind, slice) ==
    CASE kind = "Word" -> WordToken(slice)
      [] kind = "NumberLit" -> NumberToken(slice)
      [] kind = "StringLit" -> Data("StringLit", "", slice)
      [] kind = "Punct" -> Data("Punct", slice[1], <<>>)
      [] kind = "Error" -> ErrorData("Unexpected", "")
      [] kind = "Ws" -> ErrorData("Ws", "")

Spanned(data, start, end) == data @@ [start |-> start, end |-> end]

WordTags == {"NumberLit", "Ident", "UpperIdent", "Operator", "Keyword"}

\* `matches!(data, NumberLit | Ident | UpperIdent | Operator | Keyword)`
IsWord(data) == data.tag \in WordTags

\* the NoWs token keeps the span of the first of the two tokens
MergeNoWsKeepsSpan(prev, end) == Spanned(ErrorData("NoWs", ""), prev.start, prev.end)

\* prev.span.extend_until(span.end()).embed(no_ws)
MergeNoWs(prev, end) == Spanned(ErrorData("NoWs", ""), prev.start, end)

\* The body of the for loop of lex() for the token the scanner yields at pos.
\* the lengths the scanner's next match can have: the longest match, or what
\* the error token takes when nothing matches
MatchLens(t, p) ==
    IF NextIToken(t, p).len = 0 THEN ErrorLens(t, p) ELSE {NextIToken(t, p).len}

\* the flag is cleared when two tokens are merged
LexPushMergeClears(data, end) ==
    /\ pos' = end
    /\ IF data.tag = "Error" /\ data.sub = "Ws"
          THEN /\ was_word' = FALSE
               /\ v' = v
               /\ lpc' = lpc
       ELSE IF was_word /\ IsWord(data)
          THEN IF Len(v) = 0
                  THEN /\ lpc' = "panic"
                       /\ UNCHANGED <<v, was_word>>
                  ELSE /\ v' = [v EXCEPT ![Len(v)] = MergeNoWs(v[Len(v)], end)]
                       /\ was_word' = FALSE
                       /\ lpc' = lpc
       ELSE /\ was_word' = IsWord(data)
            /\ v' = Append(v, Spanned(data, pos, end))
            /\ lpc' = lpc

\* the body of the loop once the token of the match at pos..end is known
LexPush(data, end) ==
    /\ pos' = end
    /\ IF data.tag = "Error" /\ data.sub = "Ws"
          THEN /\ was_word' = FALSE
               /\ v' = v
               /\ lpc' = lpc
       ELSE IF was_word /\ IsWord(data)
          THEN IF Len(v) = 0
                  THEN /\ lpc' = "panic"     \* v.pop().unwrap()
                       /\ UNCHANGED <<v, was_word>>
                  ELSE /\ v' = [v EXCEPT ![Len(v)] = MergeNoWs(v[Len(v)], end)]
                       /\ UNCHANGED <<was_word, lpc>>
       ELSE /\ was_word' = IsWord(data)
            /\ v' = Append(v, Spanned(data, pos, end))
            /\ lpc' = lpc

LexStep ==
    /\ lpc = "scan"
    /\ pos < Len(text)
    /\ \E n \in MatchLens(text, pos) :
           LexPush(TokenOf(NextIToken(text, pos).kind, Slice(text, pos, pos + n)), pos + n)
    /\ UNCHANGED <<text, given>>
    /\ UNCHANGED exprVars
    /\ UNCHANGED parseVars

\* Eof is pushed with the span of the whole text
LexEofWholeSpan ==
    /\ lpc = "scan"
    /\ pos = Len(text)
    /\ v' = Append(v, Spanned(Data("Eof", "", <<>>), 0, Len(text)))
    /\ lpc' = "done"
    /\ UNCHANGED <<text, pos, was_word, given>>
    /\ UNCHANGED exprVars
    /\ UNCHANGED parseVars

\* The scanner is exhausted: push Eof at text.len()..text.len() and return.
LexEof ==
    /\ lpc = "scan"
    /\ pos = Len(text)
    /\ v' = Append(v, Spanned(Data("Eof", "", <<>>), Len(text), Len(text)))
    /\ lpc' = "done"
    /\ UNCHANGED <<text, pos, was_word, given>>
    /\ UNCHANGED exprVars
    /\ UNCHANGED parseVars

NextLex == LexStep \/ LexEof

RECURSIVE SeqsUpTo(_, _)
\* all sequences over S of length at most n
SeqsUpTo(S, n) ==
    IF n = 0 THEN {<<>>}
    ELSE LET shorter == SeqsUpTo(S, n - 1)
         IN shorter \cup {Append(s, c) : s \in {x \in shorter : Len(x) = n - 1}, c \in S}

NoGiven == [sign |-> "", radix |-> 0, upper |-> FALSE, mag |-> ZeroMag]
NoParts == <<>>
NoResult == [status |-> "idle"]

\* Lexer::from_tokens(tokens), with no call made yet
FromTokens(tokens) == [tokens |-> tokens, ops |-> <<>>]

ParseIdle ==
    /\ lexer = FromTokens(<<>>)
    /\ items = NoResult
    /\ result = NoResult
    /\ cpc = "idle"

ExprIdle ==
    /\ parts = NoParts
    /\ ppc = "idle"
    /\ parsed = NoResult
    /\ validated = NoResult
    /\ ParseIdle

LexStart ==
    /\ pos = 0
    /\ was_word = FALSE
    /\ v = <<>>
    /\ lpc = "scan"

\* Characters of every class the scanner tells apart.
Alphabet == {"o", "r", "X", "0", "1", "-", ".", "_", "?", " ", "#", "\n", "$", "\""}

\* `or -1`, `1#o` newline `X`, `-.1?`, `x.5`, `"o" 1`, `1?.1`, `1?.1 o.1`
TextExamples ==
    {<<"o", "r", " ", "-", "1">>, <<"1", "#", "o", "\n", "X">>, <<"-", ".", "1", "?">>,
     <<"o", ".", "1", "0">>, <<"\"", "o", "\"", " ", "1">>, <<"1", "?", ".", "1">>,
     <<"1", "?", ".", "1", " ", "o", ".", "1">>}

Init ==
    /\ text \in SeqsUpTo(Alphabet, MaxLen) \cup TextExamples
    /\ given = NoGiven
    /\ LexStart
    /\ ExprIdle

Spec == Init /\ [][NextLex]_vars

(***************************************************************************)
(* Integer literals: the lexer run on the rendering of a value             *)
(***************************************************************************)
MaxSmall == 20

\* a magnitude with one more limb, so that u64::MAX + 1 can be written
Ext(m) == MulAddFrom(m, 1, 1, 0)

PlusSmall(m, k) == MulAddFrom(m, 1, 1, k)

\* The values literals are rendered from: small ones, and the values around
\* 2^16, 2^32, i64::MAX, -i64::MIN and u64::MAX.
Values ==
    {Ext(SmallMag(n)) : n \in 0..MaxSmall}
        \cup {PlusSmall(OnesMag(b), k) : b \in {16, 32, IntBits - 1, IntBits}, k \in 0..2}
        \cup {Ext([OnesMag(b) EXCEPT ![1] = @ - 1]) : b \in {IntBits - 1, IntBits}}

RECURSIVE DivFrom(_, _, _, _)
\* mag \div k and mag % k, by long division from limb i downwards
DivFrom(mag, i, k, rem) ==
    IF i = 0 THEN [q |-> <<>>, rem |-> rem]
    ELSE LET x == rem * LimbBase + mag[i]
             rest == DivFrom(mag, i - 1, k, x % k)
         IN [q |-> Append(rest.q, x \div k), rem |-> rest.rem]

DigitChars(upper) ==
    DecDigits \o (IF upper THEN SubSeq(UpperLetters, 1, 6) ELSE SubSeq(LowerLetters, 1, 6))

RECURSIVE DigitsOf(_, _, _)
\* the digits of a non-zero magnitude in the radix, most significant first
DigitsOf(mag, radix, upper) ==
    IF \A i \in 1..Len(mag) : mag[i] = 0 THEN <<>>
    ELSE LET d == DivFrom(mag, Len(mag), radix, 0)
         IN Append(DigitsOf(d.q, radix, upper), DigitChars(upper)[d.rem + 1])

Prefix(radix, upper) ==
    CASE radix = 16 -> <<"0", IF upper THEN "X" ELSE "x">>
      [] radix = 8 -> <<"0", IF upper THEN "O" ELSE "o">>
      [] radix = 2 -> <<"0", IF upper THEN "B" ELSE "b">>
      [] OTHER -> <<>>

\* optional sign, radix prefix, digits of the magnitude
Render(g) ==
    LET ds == DigitsOf(g.mag, g.radix, g.upper)
    IN (IF g.sign = "" THEN <<>> ELSE <<g.sign>>)
        \o Prefix(g.radix, g.upper)
        \o (IF Len(ds) = 0 THEN <<"0">> ELSE ds)

Givens ==
    [sign : {"", "-", "+"}, radix : {2, 8, 10, 16}, upper : BOOLEAN, mag : Values]

InitNum ==
    /\ given \in Givens
    /\ text = Render(given)
    /\ LexStart
    /\ ExprIdle

SpecNum == InitNum /\ [][NextLex]_vars

\* the largest magnitude a literal with this sign can have
LimitOf(sign) ==
    CASE sign = "" -> I64.maxPos
      [] sign = "-" -> I64.maxNeg
      [] sign = "+" -> U64.maxPos

Representable(g) ==
    g.mag[NLimbs + 1] = 0 /\ ~MagGreater(SubSeq(g.mag, 1, NLimbs), LimitOf(g.sign))

\* exactly one more than the largest magnitude
OnePast(g) == g.mag = PlusSmall(LimitOf(g.sign), 1)

AtLimit(g) == g.mag = Ext(LimitOf(g.sign))

(***************************************************************************)
(* Number-shaped runs: the lexer run on short texts over the characters    *)
(* of integer literals                                                     *)
(***************************************************************************)
MaxRun == 4

RunAlphabet == {"0", "1", "2", "x", "b", "F", "G", "_", "-", "."}

\* a run whose leading digits overflow before the bad character is read
LongRun == <<"0", "x">> \o [i \in 1..17 |-> "F"] \o <<"G">>

RunExamples ==
    {<<"0", "x", "F", "_", "G">>, <<"0", "b", "0", "1", "2">>, <<"-", "0", "x", "_", "G">>, LongRun}

InitRun ==
    /\ text \in SeqsUpTo(RunAlphabet, MaxRun) \cup RunExamples
    /\ given = NoGiven
    /\ LexStart
    /\ ExprIdle

SpecRun == InitRun /\ [][NextLex]_vars

(***************************************************************************)
(* Expressions (expr.rs).  An ExprPart is [kind, data] with its span; an    *)
(* Expr is the record of its ExprData variant with the fields start, end.  *)
(***************************************************************************)
NoExpr == [kind |-> "None"]

Min2(a, b) == IF a <= b THEN a ELSE b

\* TextRange::merge
Merge(a, b) == [start |-> Min2(a.start, b.start), end |-> Max2(a.end, b.end)]

SpanOf(x) == [start |-> x.start, end |-> x.end]

\* Expr::new(data, span)
NewExpr(data, span) == [f \in DOMAIN data \ {"start", "end"} |-> data[f]] @@ span

\* Result<Expr, Error>; a todo!() or panic!() that is reached is "panic",
\* Ok(None) is "none"
POk(e) == [status |-> "ok", err |-> "", expr |-> e]
PErr(e, got) == [status |-> "err", err |-> e, expr |-> got]
PPanic == [status |-> "panic", err |-> "", expr |-> NoExpr]
PNone == [status |-> "none", err |-> "", expr |-> NoExpr]

Connectives == {"And", "Or", "Dot", "Equals"}

\* the invk!(Operator(_)) / invk!(Type(_)) / invk!(Ident(_)) patterns
IsInvk(x, nameKind) == x.kind = "Invokable" /\ x.data.name.kind = nameKind

\* ExprPart::into_operand(self, span)
IntoOperand(part) ==
    IF part.kind \in {"Literal", "Invokable", "Lambda", "Block"}
        THEN POk(NewExpr(part.data, SpanOf(part)))
    ELSE IF part.kind = "Parens"
        THEN POk(NewExpr([part.data EXCEPT !.kind = "Tuple"], SpanOf(part)))
    ELSE PPanic

\* ExprData::to_operator
ToOperator(expr) ==
    IF expr.kind = "Invokable" /\ expr.name.kind = "Operator" THEN <<expr.name.id>> ELSE <<>>

\* validate_operand(expr)
ValidateOperand(expr) ==
    IF Len(ToOperator(expr)) > 0
        THEN PErr("OperatorInsteadOfOperand", [kind |-> "Operator", id |-> ToOperator(expr)[1]])
        ELSE POk(NoExpr)

\* a part that is no operator is left to the binding-power lookup
AssertIsOperatorLenient(op, lhs) ==
    IF IsInvk(op, "Operator") \/ IsInvk(op, "Type") \/ op.kind \in {"And", "Or"}
        THEN ValidateOperand(lhs)
        ELSE POk(NoExpr)

\* ExprPart::assert_is_operator(&self, lhs)
AssertIsOperator(op, lhs) ==
    IF op.kind \in {"Parens", "Dot", "Equals"} THEN POk(NoExpr)
    ELSE IF IsInvk(op, "Operator") \/ IsInvk(op, "Type") \/ op.kind \in {"And", "Or"}
        THEN ValidateOperand(lhs)
    ELSE PErr("ExpectedGot3", op.data)

\* postfix_binding_power(op): <<l_bp>>, or <<>> for None
PostfixBindingPower(op) ==
    IF IsInvk(op, "Type") THEN <<11>>
    ELSE IF op.kind = "Parens" THEN <<9>>
    ELSE <<>>

\* the operator binds tighter on its left than on its right
InfixBindingPowerOperatorRight(op) ==
    CASE op.kind = "Dot" -> <<13, 14>>
      [] IsInvk(op, "Operator") -> <<8, 7>>
      [] op.kind = "And" -> <<5, 6>>
      [] op.kind = "Or" -> <<3, 4>>
      [] op.kind = "Equals" -> <<2, 1>>
      [] OTHER -> <<>>

\* `=` with the left and right binding power swapped
InfixBindingPowerEqualsLeft(op) ==
    CASE op.kind = "Dot" -> <<13, 14>>
      [] IsInvk(op, "Operator") -> <<7, 8>>
      [] op.kind = "And" -> <<5, 6>>
      [] op.kind = "Or" -> <<3, 4>>
      [] op.kind = "Equals" -> <<1, 2>>
      [] OTHER -> <<>>

\* infix_binding_power(op): <<l_bp, r_bp>>, or <<>> for None
InfixBindingPower(op) ==
    CASE op.kind = "Dot" -> <<13, 14>>
      [] IsInvk(op, "Operator") -> <<7, 8>>
      [] op.kind = "And" -> <<5, 6>>
      [] op.kind = "Or" -> <<3, 4>>
      [] op.kind = "Equals" -> <<2, 1>>
      [] OTHER -> <<>>

\* the postfix arm of pratt_parser's loop: the new lhs
PostfixExpr(op, lhs) ==
    NewExpr(IF op.kind = "Parens"
               THEN [kind |-> "ParenCall", receiver |-> lhs, args |-> op.data.exprs]
               ELSE [kind |-> "TypeAscription", expr |-> lhs,
                     ty |-> [name |-> op.data.name.id, args |-> op.data.generics]],
            Merge(SpanOf(lhs), SpanOf(op)))

\* ExprPart::into_operation(self, lhs, rhs)
IntoOperation(op, lhs, rhs) ==
    LET span == Merge(SpanOf(lhs), SpanOf(rhs))
        checked == IF ValidateOperand(lhs).status # "ok" THEN ValidateOperand(lhs)
                   ELSE ValidateOperand(rhs)
    IN CASE IsInvk(op, "Operator") ->
              IF checked.status # "ok" THEN checked
              ELSE POk(NewExpr([kind |-> "Operation", operator |-> op.data.name.id,
                                lhs |-> lhs, rhs |-> rhs], span))
         [] op.kind \in {"And", "Or"} ->
              IF checked.status # "ok" THEN checked
              ELSE POk(NewExpr([kind |-> "ShortcircuitingOp", operator |-> op.kind,
                                lhs |-> lhs, rhs |-> rhs], span))
         [] op.kind = "Dot" ->
              IF rhs.kind = "Invokable"
                  THEN POk(NewExpr([kind |-> "MemberCall", receiver |-> lhs,
                                    member |-> rhs], span))
                  ELSE PPanic
         [] op.kind = "Equals" ->
              IF ValidateOperand(lhs).status # "ok" THEN ValidateOperand(lhs)
              ELSE POk(NewExpr([kind |-> "Assignment", lhs |-> lhs, rhs |-> rhs], span))
         [] OTHER -> PPanic

RECURSIVE PrattParser(_, _, _)
RECURSIVE PrattLoop(_, _, _, _)

\* pratt_parser(expr_parts, min_bp), with the iterator at ps[i]: the result
\* and the place the iterator is left at
PrattParser(ps, i, min_bp) ==
    IF i > Len(ps) THEN [res |-> PErr("Expected", NoExpr), next |-> i]
    ELSE LET lhs == IntoOperand(ps[i])
         IN IF lhs.status # "ok" THEN [res |-> lhs, next |-> i + 1]
            ELSE PrattLoop(ps, lhs.expr, i + 1, min_bp)

\* the `loop` of pratt_parser with the left-hand side built so far
PrattLoop(ps, lhs, i, min_bp) ==
    IF i > Len(ps) THEN [res |-> POk(lhs), next |-> i]
    ELSE LET op == ps[i]
             asserted == AssertIsOperator(op, lhs)
             post == PostfixBindingPower(op)
             infix == InfixBindingPower(op)
         IN IF asserted.status # "ok" THEN [res |-> asserted, next |-> i]
            ELSE IF Len(post) > 0
                THEN IF post[1] < min_bp THEN [res |-> POk(lhs), next |-> i]
                     ELSE PrattLoop(ps, PostfixExpr(op, lhs), i + 1, min_bp)
            ELSE IF Len(infix) > 0
                THEN IF infix[1] < min_bp THEN [res |-> POk(lhs), next |-> i]
                     ELSE LET rhs == PrattParser(ps, i + 1, infix[2])
                              made == IntoOperation(op, lhs, rhs.res.expr)
                          IN IF rhs.res.status # "ok" THEN rhs
                             ELSE IF made.status # "ok" THEN [res |-> made, next |-> rhs.next]
                             ELSE PrattLoop(ps, made.expr, rhs.next, min_bp)
            ELSE [res |-> POk(lhs), next |-> i]

\* ExprData::parse once the parts are collected
ParseExprData(ps) ==
    IF Len(ps) = 0 THEN PNone
    ELSE IF Len(ps) = 1
        THEN IF ps[1].kind \in Connectives THEN PNone ELSE IntoOperand(ps[1])
    ELSE PrattParser(ps, 1, 0).res

(***************************************************************************)
(* Validation (validation.rs)                                              *)
(***************************************************************************)
VOk == [ok |-> TRUE, err |-> "", kind |-> ""]
VErr(e, k) == [ok |-> FALSE, err |-> e, kind |-> k]

\* `r?; s`
Then(r, s) == IF r.ok THEN s ELSE r

\* the kinds an operand may not have, and no others
BadReceiverKindsOperations == {"Operation", "Assignment", "ShortcircuitingOp"}

\* the kinds ParenCall::validate and MemberCall::validate refuse as receiver
BadReceiverKinds ==
    {"Operation", "Assignment", "TypeAscription", "Statement", "Empty",
     "ShortcircuitingOp", "Declaration"}

\* check_place_name(name)
CheckPlaceName(name) ==
    CASE name.kind = "Operator" -> VErr("ExpectedGot", "operator")
      [] name.kind = "Type" -> VErr("ExpectedGot", "type")
      [] OTHER -> VOk

\* an expression of any other kind passes as a place
CheckPlaceAnyKind(e) ==
    IF e.kind \in {"Invokable", "MemberCall"}
        THEN LET i == IF e.kind = "Invokable" THEN e ELSE e.member
             IN IF Len(i.generics) # 0 THEN VErr("UnexpectedGenerics", "")
                ELSE CheckPlaceName(i.name)
        ELSE VOk

\* the `if state == ExprPlaceType::Place` of Expr::validate
CheckPlace(e) ==
    IF e.kind \in {"Invokable", "MemberCall"}
        THEN LET i == IF e.kind = "Invokable" THEN e ELSE e.member
             IN IF Len(i.generics) # 0 THEN VErr("UnexpectedGenerics", "")
                ELSE CheckPlaceName(i.name)
        ELSE VErr("NoPlaceExpr", e.kind)

\* the operator of a nested operation is not compared
EnsureNoOperationExceptKindOnly(expr, except) ==
    IF expr.kind \in {"Statement", "ShortcircuitingOp", "Assignment", "Empty", "Declaration"}
        THEN VErr("InvalidOperand", expr.kind)
        ELSE VOk

\* ensure_no_operation_except(expr, except)
EnsureNoOperationExcept(expr, except) ==
    IF expr.kind = "Operation" /\ expr.operator # except
        THEN VErr("OperationsRequireBlock", "")
    ELSE IF expr.kind \in {"Statement", "ShortcircuitingOp", "Assignment", "Empty", "Declaration"}
        THEN VErr("InvalidOperand", expr.kind)
    ELSE VOk

\* ensure_no_sc_operation_except(expr, except)
EnsureNoScOperationExcept(expr, except) ==
    IF expr.kind = "ShortcircuitingOp" /\ expr.operator # except
        THEN VErr("OperationsRequireBlock", "")
    ELSE IF expr.kind \in {"Statement", "Assignment", "Empty", "Declaration"}
        THEN VErr("InvalidOperand", expr.kind)
    ELSE VOk

RECURSIVE ValidateExpr(_, _)
RECURSIVE ValidateExprs(_, _, _)
RECURSIVE ValidateCallArgs(_, _, _)
RECURSIVE ValidateTupleArgs(_, _)

\* <[T] as Validate>::validate from element i on
ValidateExprs(exprs, i, state) ==
    IF i > Len(exprs) THEN VOk
    ELSE Then(ValidateExpr(exprs[i], state), ValidateExprs(exprs, i + 1, state))

RECURSIVE ValidateCallArgsUnnamedAfterNamed(_, _, _)
\* the order turned round: an unnamed argument after a named one is refused
ValidateCallArgsUnnamedAfterNamed(args, i, named_found) ==
    IF i > Len(args) THEN VOk
    ELSE IF args[i].name = "" /\ named_found THEN VErr("NamedAfterUnnamed", "")
    ELSE Then(ValidateExpr(args[i].expr, "Other"),
              ValidateCallArgsUnnamedAfterNamed(args, i + 1, named_found \/ args[i].name # ""))

\* the `for arg in &**args` of ParenCall::validate from argument i on
ValidateCallArgs(args, i, unnamed_found) ==
    IF i > Len(args) THEN VOk
    ELSE IF args[i].name # "" /\ unnamed_found THEN VErr("NamedAfterUnnamed", "")
    ELSE Then(ValidateExpr(args[i].expr, "Other"),
              ValidateCallArgs(args, i + 1, unnamed_found \/ args[i].name = ""))

\* the `for arg in &*self.exprs` of Parens::validate from argument i on
ValidateTupleArgs(args, i) ==
    IF i > Len(args) THEN VOk
    ELSE IF args[i].name # "" THEN VErr("NamedArgInTuple", "")
    ELSE Then(ValidateExpr(args[i].expr, "Other"), ValidateTupleArgs(args, i + 1))

\* ParenCall::validate
ValidateParenCall(p) ==
    Then(ValidateExpr(p.receiver, "Other"),
         IF p.receiver.kind \in BadReceiverKinds
             THEN VErr("InvalidCallReceiver", p.receiver.kind)
             ELSE ValidateCallArgs(p.args, 1, FALSE))

\* MemberCall::validate
ValidateMemberCall(m) ==
    Then(ValidateExpr(m.receiver, "Other"),
         IF m.receiver.kind \in BadReceiverKinds
             THEN VErr("InvalidMemberReceiver", m.receiver.kind)
             ELSE VOk)

\* Operation::validate
ValidateOperation(o) ==
    Then(EnsureNoOperationExcept(o.lhs, o.operator),
    Then(EnsureNoOperationExcept(o.rhs, o.operator),
    Then(ValidateExpr(o.lhs, "Other"),
         ValidateExpr(o.rhs, "Other"))))

\* ScOperation::validate
ValidateScOperation(o) ==
    Then(EnsureNoScOperationExcept(o.lhs, o.operator),
    Then(EnsureNoScOperationExcept(o.rhs, o.operator),
    Then(ValidateExpr(o.lhs, "Other"),
         ValidateExpr(o.rhs, "Other"))))

\* Assignment::validate
ValidateAssignment(a) ==
    Then(ValidateExpr(a.lhs, "Place"), ValidateExpr(a.rhs, "Other"))

\* Expr::validate(state)
ValidateExpr(e, state) ==
    Then(IF state = "Place" THEN CheckPlace(e) ELSE VOk,
         CASE e.kind = "ParenCall" -> ValidateParenCall(e)
           [] e.kind = "MemberCall" -> ValidateMemberCall(e)
           [] e.kind = "Operation" -> ValidateOperation(e)
           [] e.kind = "ShortcircuitingOp" -> ValidateScOperation(e)
           [] e.kind = "Assignment" -> ValidateAssignment(e)
           [] e.kind = "TypeAscription" -> ValidateExpr(e.expr, "Other")
           [] e.kind = "Statement" -> ValidateExpr(e.expr, "Other")
           [] e.kind = "Lambda" -> ValidateExpr(e.body, "Other")
           [] e.kind = "Block" -> ValidateExprs(e.exprs, 1, "Other")
           [] e.kind = "Tuple" -> ValidateTupleArgs(e.exprs, 1)
           [] e.kind = "Declaration" -> ValidateExpr(e.value, "Other")
           [] OTHER -> VOk)

(***************************************************************************)
(* Part lists.  A written part is [kind, nameKind, id, names, inner]:      *)
(* inner holds the part lists written inside a block (separated by ';'),   *)
(* inside parentheses (the arguments, separated by ','; names[j] is the    *)
(* name of a named argument, or "") or inside a lambda's block.  Every     *)
(* token is one column wide and the parts of a list are one blank apart.   *)
(***************************************************************************)
Written(kind, nameKind, id, names, inner) ==
    [kind |-> kind, nameKind |-> nameKind, id |-> id, names |-> names, inner |-> inner]

Lit(id) == Written("Literal", "", id, <<>>, <<>>)
Ident(id) == Written("Invokable", "Ident", id, <<>>, <<>>)
Type(id) == Written("Invokable", "Type", id, <<>>, <<>>)
Op(id) == Written("Invokable", "Operator", id, <<>>, <<>>)
\* a name followed by type arguments, `x[T]`: names holds the arguments
Generic(id, args) == Written("Invokable", "Ident", id, args, <<>>)
Conn(kind) == Written(kind, "", "", <<>>, <<>>)
BlockOf(lists) == Written("Block", "", "", <<>>, lists)
LambdaOf(list) == Written("Lambda", "", "", <<>>, <<list>>)
ParensOf(names, lists) == Written("Parens", "", "", names, lists)

RECURSIVE WrittenWidth(_)
RECURSIVE ListWidthFrom(_, _)
RECURSIVE ListsWidthFrom(_, _, _)

\* columns of the parts list[i..], blanks included
ListWidthFrom(list, i) ==
    IF i > Len(list) THEN 0
    ELSE WrittenWidth(list[i]) + (IF i < Len(list) THEN 1 ELSE 0) + ListWidthFrom(list, i + 1)

\* columns of the lists lists[j..], names and separators included
ListsWidthFrom(names, lists, j) ==
    IF j > Len(lists) THEN 0
    ELSE (IF j <= Len(names) /\ names[j] # "" THEN 2 ELSE 0)
            + ListWidthFrom(lists[j], 1)
            + (IF j < Len(lists) THEN 1 ELSE 0)
            + ListsWidthFrom(names, lists, j + 1)

WrittenWidth(w) ==
    CASE w.kind \in {"Block", "Parens"} -> 2 + ListsWidthFrom(w.names, w.inner, 1)
      [] w.kind = "Lambda" -> 4 + ListsWidthFrom(w.names, w.inner, 1)
      [] w.kind = "Invokable" /\ Len(w.names) > 0 -> 2 + 2 * Len(w.names)
      [] OTHER -> 1

RECURSIVE PlacePart(_, _)

\* the parts (ExprPart, TextRange) of the written list that starts at column at
PlaceList(list, at) ==
    [i \in 1..Len(list) |->
        PlacePart(list[i], at + ListWidthFrom(list, 1) - ListWidthFrom(list, i))]

\* the column where the j-th inner list of w starts, w starting at column at
InnerAt(w, at, j) ==
    at + (IF w.kind = "Lambda" THEN 3 ELSE 1)
       + ListsWidthFrom(w.names, w.inner, 1) - ListsWidthFrom(w.names, w.inner, j)
       + (IF j <= Len(w.names) /\ w.names[j] # "" THEN 2 ELSE 0)

\* the expressions ExprData::parse reads from the inner lists of w
InnerExprs(w, at) ==
    [j \in 1..Len(w.inner) |-> ParseExprData(PlaceList(w.inner[j], InnerAt(w, at, j))).expr]

\* the arguments FunCallArgument::parse reads from the inner lists of w
InnerArgs(w, at) ==
    [j \in 1..Len(w.inner) |->
        LET e == InnerExprs(w, at)[j]
        IN [name |-> w.names[j], expr |-> e,
            start |-> IF w.names[j] # "" THEN Min2(InnerAt(w, at, j) - 2, e.start)
                      ELSE e.start,
            end |-> e.end]]

\* Block::parse: the Block and its span
BlockAt(w, at, from, to) ==
    [kind |-> "Block", exprs |-> InnerExprs(w, at), start |-> from, end |-> to]

\* TextRange::default()
DefaultRange == [start |-> 0, end |-> 0]

\* parse_type_arguments(lexer)?.unwrap_or_default().1 after the name at column at
GenSpan(w, at) ==
    IF Len(w.names) = 0 THEN DefaultRange
    ELSE [start |-> at + 1, end |-> at + WrittenWidth(w)]

\* Invokable::parse: `name.1.merge(gen_span)`
InvokableSpan(w, at) == Merge([start |-> at, end |-> at + 1], GenSpan(w, at))

\* ExprPart::parse for the written part w at column at
PlacePart(w, at) ==
    LET to == at + WrittenWidth(w)
        data ==
            CASE w.kind = "Literal" -> [kind |-> "Literal", lit |-> w.id]
              [] w.kind = "Invokable" ->
                    [kind |-> "Invokable", name |-> [kind |-> w.nameKind, id |-> w.id],
                     generics |-> w.names]
              [] w.kind = "Block" -> [kind |-> "Block", exprs |-> InnerExprs(w, at)]
              [] w.kind = "Lambda" ->
                    [kind |-> "Lambda", args |-> <<>>, body |-> BlockAt(w, at, at + 2, to)]
              [] w.kind = "Parens" -> [kind |-> "Parens", exprs |-> InnerArgs(w, at)]
              [] OTHER -> [kind |-> w.kind]
    IN IF w.kind = "Invokable"
           THEN [kind |-> w.kind, data |-> data] @@ InvokableSpan(w, at)
           ELSE [kind |-> w.kind, data |-> data, start |-> at, end |-> to]

\* every inner list of every part of the list is an expression
RECURSIVE WellWritten(_)
WellWritten(list) ==
    \A i \in 1..Len(list) :
        \A j \in 1..Len(list[i].inner) :
            /\ WellWritten(list[i].inner[j])
            /\ ParseExprData(PlaceList(list[i].inner[j], 0)).status = "ok"

(***************************************************************************)
(* The expression specification: a part list is parsed, and the            *)
(* expression, if there is one, validated                                  *)
(***************************************************************************)
MaxParts == 3
MaxInfix == 2
MaxOperands == 5
MaxArgs == 3

OnePlusTwo == <<Lit("1"), Op("+x"), Lit("2")>>

\* a part of every kind ExprPart::parse yields
Vocabulary ==
    {Lit("1"), Ident("a"), Type("T"), Op("+x"), Op("+y"),
     Conn("And"), Conn("Or"), Conn("Dot"), Conn("Equals"),
     BlockOf(<<OnePlusTwo>>), ParensOf(<<"">>, << <<Ident("b")>> >>),
     LambdaOf(<<Lit("1")>>)}

\* an operand, alone or with a postfix form
Operands ==
    {<<Ident("a")>>, <<Ident("a"), Type("T")>>,
     <<Ident("a"), ParensOf(<<"">>, << <<Ident("b")>> >>)>>}

Infixes == {Conn("Dot"), Op("+x"), Conn("And"), Conn("Or"), Conn("Equals")}

RECURSIVE Chains(_)
\* operands joined by n infix parts
Chains(n) ==
    IF n = 0 THEN Operands
    ELSE {c \o <<i>> \o o : c \in Chains(n - 1), i \in Infixes, o \in Operands}

\* the parts assert_is_operator refuses
Strays == {Lit("1"), Ident("a"), BlockOf(<<OnePlusTwo>>), LambdaOf(<<Lit("1")>>)}

\* operands, operators and blocks only
OperandVocabulary == {Lit("1"), Op("+x"), Op("+y"), BlockOf(<<OnePlusTwo>>)}

\* a(b).c
CallThenMember ==
    <<Ident("a"), ParensOf(<<"">>, << <<Ident("b")>> >>), Conn("Dot"), Ident("c")>>

\* x = x.map(y) T
AssignAscribed ==
    <<Ident("x"), Conn("Equals"), Ident("x"), Conn("Dot"), Ident("map"),
      ParensOf(<<"">>, << <<Ident("y")>> >>), Type("T")>>

\* a = b = c
AssignTwice == <<Ident("a"), Conn("Equals"), Ident("b"), Conn("Equals"), Ident("c")>>

\* 1 +x 2 +y 3
MixedOperators == OnePlusTwo \o <<Op("+y"), Lit("3")>>

\* {1 +x 2} +y 3
BlockThenOperator == <<BlockOf(<<OnePlusTwo>>), Op("+y"), Lit("3")>>

\* 1 +x 2 +x 3
SameOperator == OnePlusTwo \o <<Op("+x"), Lit("3")>>

\* {1 +x 2 +y 3} +x 1
MixedInBlock == <<BlockOf(<<MixedOperators>>), Op("+x"), Lit("1")>>

\* x[T] = 2
AssignGeneric == <<Generic("x", <<"T">>), Conn("Equals"), Lit("2")>>

\* a . x[T] = 2
AssignMemberGeneric ==
    <<Ident("a"), Conn("Dot"), Generic("x", <<"T">>), Conn("Equals"), Lit("2")>>

\* a . x = 2
AssignMember == <<Ident("a"), Conn("Dot"), Ident("x"), Conn("Equals"), Lit("2")>>

\* f() = 2
AssignCall == <<Ident("f"), ParensOf(<<>>, <<>>), Conn("Equals"), Lit("2")>>

\* f(...) with up to MaxArgs arguments `1`, each named `a:` or unnamed
Calls ==
    {<<Ident("f"), ParensOf(names, [j \in 1..Len(names) |-> <<Lit("1")>>])>> :
        names \in SeqsUpTo({"", "a"}, MaxArgs)}

Examples ==
    {CallThenMember, AssignAscribed, AssignTwice, MixedOperators, BlockThenOperator,
     SameOperator, MixedInBlock, AssignGeneric, AssignMemberGeneric, AssignMember,
     AssignCall}

\* the part lists the parser is run on
WrittenLists(n) ==
    IF n < 0 THEN SeqsUpTo(Vocabulary, MaxParts) \cup SeqsUpTo(OperandVocabulary, MaxOperands)
                      \cup Examples \cup Calls
    ELSE IF n = 0 THEN Chains(0)
    ELSE Chains(n) \cup {c \o <<p>> : c \in Chains(n - 1), p \in Strays}

LexIdle ==
    /\ text = <<>>
    /\ given = NoGiven
    /\ pos = 0
    /\ was_word = FALSE
    /\ v = <<>>
    /\ lpc = "idle"

InitExpr ==
    /\ LexIdle
    /\ \E n \in -1..MaxInfix : \E list \in WrittenLists(n) : parts = PlaceList(list, 0)
    /\ ppc = "idle"
    /\ parsed = NoResult
    /\ validated = NoResult
    /\ ParseIdle

\* ExprData::parse on the collected parts
ParseExpr ==
    /\ ppc = "idle"
    /\ parsed' = ParseExprData(parts)
    /\ ppc' = "parsed"
    /\ UNCHANGED <<parts, validated>>
    /\ UNCHANGED lexVars
    /\ UNCHANGED parseVars

\* Expr::validate(ExprPlaceType::Other) on the expression that was parsed
Validate ==
    /\ ppc = "parsed"
    /\ parsed.status = "ok"
    /\ validated' = ValidateExpr(parsed.expr, "Other")
    /\ ppc' = "validated"
    /\ UNCHANGED <<parts, parsed>>
    /\ UNCHANGED lexVars
    /\ UNCHANGED parseVars

NextExpr == ParseExpr \/ Validate

SpecExpr == InitExpr /\ [][NextExpr]_vars

(***************************************************************************)
(* The parser's token cursor (parser/src/lib.rs).  A Lexer is the slice of *)
(* tokens that is left, together with the calls made on it so far.  A     *)
(* call returns [st, val, lex]: st is "some" (Some / Ok), "none" (None),   *)
(* "err" (Err) or "panic"; lex is the Lexer after the call.                *)
(***************************************************************************)
\* Token::data
TokData(tok) == [f \in DOMAIN tok \ {"start", "end"} |-> tok[f]]

Punct(c) == Data("Punct", c, <<>>)
Kw(word) == Data("Keyword", "", word)
Eof == Data("Eof", "", <<>>)
NoTok == Data("", "", <<>>)

Got(val, lex) == [st |-> "some", val |-> val, lex |-> lex]
Nothing(lex) == [st |-> "none", val |-> NoExpr, lex |-> lex]
Failed(e, lex) == [st |-> "err", val |-> e, lex |-> lex]
Panicked(lex) == [st |-> "panic", val |-> NoExpr, lex |-> lex]

\* the variants of Error: what is the &'static str of ExpectedGot2
ErrorOf(e, what, expected, got) ==
    [err |-> e, what |-> what, expected |-> expected, got |-> got, rest |-> <<>>,
     inner |-> VOk]

\* the Lexer after the call op, which advanced it by one token or did not
Called(l, op, moved) ==
    [tokens |-> IF moved THEN Tail(l.tokens) ELSE l.tokens,
     ops |-> Append(l.ops, [op |-> op, left |-> Len(l.tokens),
                            tag |-> IF Len(l.tokens) = 0 THEN "" ELSE l.tokens[1].tag,
                            moved |-> moved])]

\* eat advances although the token is not the one asked for
LexerEatAnyToken(l, token) ==
    IF Len(l.tokens) = 0 THEN Panicked(Called(l, "eat", FALSE))
    ELSE Got(SpanOf(l.tokens[1]), Called(l, "eat", TRUE))

\* Lexer::eat(token)
LexerEat(l, token) ==
    IF Len(l.tokens) = 0 THEN Panicked(Called(l, "eat", FALSE))      \* split_first().unwrap()
    ELSE IF token = TokData(l.tokens[1])
        THEN Got(SpanOf(l.tokens[1]), Called(l, "eat", TRUE))
    ELSE Nothing(Called(l, "eat", FALSE))

\* Lexer::next()
LexerNext(l) ==
    IF Len(l.tokens) = 0 THEN Panicked(Called(l, "next", FALSE))     \* split_first().unwrap()
    ELSE Got(l.tokens[1], Called(l, "next", TRUE))

\* Lexer::peek()
LexerPeek(l) ==
    IF Len(l.tokens) = 0 THEN Panicked(Called(l, "peek", FALSE))     \* self.tokens[0]
    ELSE Got(l.tokens[1], Called(l, "peek", FALSE))

\* expect takes the token although it is not the one asked for
ExpectGotSkipping(expected, peeked) ==
    IF peeked.st = "panic" THEN peeked
    ELSE IF expected = TokData(peeked.val)
        THEN Got(SpanOf(peeked.val), LexerNext(peeked.lex).lex)
    ELSE Failed(ErrorOf("ExpectedGot", "", expected, TokData(peeked.val)),
                LexerNext(peeked.lex).lex)

\* `Ok(self.next().span)` / `Err(Error::ExpectedGot(expected, got))`
ExpectGot(expected, peeked) ==
    IF peeked.st = "panic" THEN peeked
    ELSE IF expected = TokData(peeked.val)
        THEN Got(SpanOf(peeked.val), LexerNext(peeked.lex).lex)
    ELSE Failed(ErrorOf("ExpectedGot", "", expected, TokData(peeked.val)), peeked.lex)

\* expect succeeds although the token is not there
LexerExpectLenient(l, token) ==
    IF LexerPeek(l).st = "panic" \/ token = TokData(LexerPeek(l).val)
        THEN ExpectGot(token, LexerPeek(l))
        ELSE Got(SpanOf(LexerPeek(l).val), LexerPeek(l).lex)

\* Lexer::expect(token)
LexerExpect(l, token) == ExpectGot(token, LexerPeek(l))

\* finish() returns Ok whatever is left
FinishAnything(l) == Got(NoExpr, l)

\* Lexer::finish()
LexerFinish(l) ==
    IF Len(l.tokens) = 0 \/ (Len(l.tokens) = 1 /\ TokData(l.tokens[1]) = Eof)
        THEN Got(NoExpr, l)
        ELSE Failed([ErrorOf("RemainingTokens", "", NoTok, NoTok) EXCEPT
                        !.rest = [i \in 1..Len(l.tokens) |-> TokData(l.tokens[i])]], l)

\* `uoret!(r?)`: go on with what was parsed, return None or the error otherwise
Bind(r, K(_)) == IF r.st = "some" THEN K(r) ELSE r

\* `r?`: return the error, go on with Some or None
Try(r, K(_)) == IF r.st \in {"err", "panic"} THEN r ELSE K(r)

\* or2(f1, f2), f1 having returned r
OrElse(r, F(_)) == IF r.st = "none" THEN F(r.lex) ELSE r

\* the None arm of Parse::parse_expect, the token peeked at
ExpectedGot2(what, peeked) ==
    IF peeked.st = "panic" THEN peeked
    ELSE Failed(ErrorOf("ExpectedGot2", what, NoTok, TokData(peeked.val)), peeked.lex)

\* Parse::parse_expect(lexer, expect), Self::parse having returned r
ParseExpect(r, what) == IF r.st = "none" THEN ExpectedGot2(what, LexerPeek(r.lex)) ELSE r

\* a parser that ran on a clone of l which is dropped when it returns None
OnClone(r, l) ==
    IF r.st = "none" THEN Nothing([tokens |-> l.tokens, ops |-> r.lex.ops]) ELSE r

\* the names the lexer has interned
Symbols ==
    {[txt |-> <<"f", "o", "o">>, name |-> "foo"], [txt |-> <<"x">>, name |-> "x"],
     [txt |-> <<"f">>, name |-> "f"], [txt |-> <<"a">>, name |-> "a"],
     [txt |-> <<"B", "o", "o", "l">>, name |-> "Bool"],
     [txt |-> <<"I", "n", "t">>, name |-> "Int"], [txt |-> <<"T">>, name |-> "T"],
     [txt |-> <<"+">>, name |-> "+"]}

\* StringInterner::get_or_intern
Intern(txt) ==
    IF \E s \in Symbols : s.txt = txt
        THEN (CHOOSE s \in Symbols : s.txt = txt).name
        ELSE "other"

\* `match lexer.peek().data() { X(i) => Some((i, lexer.next().span())), _ => None }`
NextIfTag(peeked, tags) ==
    IF peeked.st = "panic" THEN peeked
    ELSE IF peeked.val.tag \in tags THEN LexerNext(peeked.lex)
    ELSE Nothing(peeked.lex)

\* Ident::parse, UpperIdent::parse, NumberLiteral::parse, StringLiteral::parse
TokenParse(l, tags) == NextIfTag(LexerPeek(l), tags)

\* the span that covers the spans of all of xs, TextRange::default() for none
RECURSIVE MergeAll(_, _)
MergeAll(xs, i) ==
    IF Len(xs) = 0 THEN DefaultRange
    ELSE IF i = Len(xs) THEN SpanOf(xs[i])
    ELSE Merge(SpanOf(xs[i]), MergeAll(xs, i + 1))

\* span.embed(inner)
Embed(span, inner) == inner @@ span

\* Vec<Spanned<T>> with its span
Listed(xs, span) == Embed(span, [list |-> xs])

RECURSIVE VecSeparatedLoop(_, _, _, _)
\* the `loop` of vec_separated on lexer_clone c with the results so far
VecSeparatedLoop(c, F(_), separator, results) ==
    Try(LexerEat(c, separator),
        LAMBDA e :
            IF e.st = "none" THEN Got(Listed(results, MergeAll(results, 1)), e.lex)
            ELSE Try(F(e.lex),
                     LAMBDA next :
                         IF next.st = "none"
                             THEN Got(Listed(results, MergeAll(results, 1)), next.lex)
                             ELSE VecSeparatedLoop(next.lex, F, separator,
                                                   Append(results, next.val))))

\* vec_separated(lexer, f, separator)
VecSeparated(l, F(_), separator) ==
    OnClone(Bind(F(l), LAMBDA first : VecSeparatedLoop(first.lex, F, separator, <<first.val>>)),
            l)

\* the trailing separator that parser_inner of enclose_multiple takes
TrailingSeparator(found, peeked, separator) ==
    IF peeked.st = "panic" THEN peeked
    ELSE IF TokData(peeked.val) = separator THEN Got(found, LexerNext(peeked.lex).lex)
    ELSE Got(found, peeked.lex)

\* parser_inner of enclose_multiple
EncloseInner(l, P(_), separator, trailing_separator) ==
    Try(VecSeparated(l, P, separator),
        LAMBDA found :
            IF found.st = "none" THEN Got(Listed(<<>>, DefaultRange), found.lex)
            ELSE IF trailing_separator
                THEN TrailingSeparator(found.val, LexerPeek(found.lex), separator)
            ELSE found)

\* enclosed(parser_inner, left, right, on_error) of enclose_multiple
EncloseMultiple(l, P(_), left, separator, right, trailing_separator) ==
    Bind(LexerEat(l, left),
         LAMBDA span1 :
             Try(EncloseInner(span1.lex, P, separator, trailing_separator),
                 LAMBDA inner :
                     Bind(LexerExpect(inner.lex, right),
                          LAMBDA span2 :
                              Got(Listed(inner.val.list, Merge(span1.val, span2.val)),
                                  span2.lex))))

\* the None arm of enclose_multiple_expect
ExpectedLeft(left, peeked) ==
    IF peeked.st = "panic" THEN peeked
    ELSE Failed(ErrorOf("ExpectedGot", "", left, TokData(peeked.val)), peeked.lex)

\* enclose_multiple_expect
EncloseMultipleExpect(l, P(_), left, separator, right, trailing_separator) ==
    OrElse(EncloseMultiple(l, P, left, separator, right, trailing_separator),
           LAMBDA x : ExpectedLeft(left, LexerPeek(x)))

\* name.span.merge_if(&args)
MergeIf(span, opt) == IF opt.st = "some" THEN Merge(span, SpanOf(opt.val)) ELSE span

\* Option<T> as a sequence of at most one T
Opt(r) == IF r.st = "some" THEN <<r.val>> ELSE <<>>

\* args.unwrap_or_default()
UnwrapOrDefault(r) == IF r.st = "some" THEN r.val ELSE Listed(<<>>, DefaultRange)

RECURSIVE NamedTypeParse(_)
RECURSIVE TypeArgumentParse(_)

\* parse_type_arguments / parse_generics with the parser of an element
Bracketed(l, P(_)) == EncloseMultiple(l, P, Punct("["), Punct(","), Punct("]"), TRUE)

\* NamedType::parse
NamedTypeParse(l) ==
    Bind(TokenParse(l, {"UpperIdent"}),
         LAMBDA name :
             Try(Bracketed(name.lex, TypeArgumentParse),
                 LAMBDA args :
                     Got(Embed(MergeIf(SpanOf(name.val), args),
                               [name |-> Intern(name.val.txt),
                                args |-> UnwrapOrDefault(args).list]),
                         args.lex)))

\* TypeArgument::parse
TypeArgumentParse(l) ==
    OrElse(Bind(NamedTypeParse(l),
                LAMBDA ty : Got(Embed(SpanOf(ty.val), [kind |-> "Type", ty |-> ty.val]),
                                ty.lex)),
           LAMBDA x : Bind(LexerEat(x, Punct("_")),
                           LAMBDA span : Got(Embed(span.val, [kind |-> "Wildcard"]),
                                             span.lex)))

\* GenericParam::parse
GenericParamParse(l) ==
    Bind(TokenParse(l, {"UpperIdent"}),
         LAMBDA name : Got(Embed(SpanOf(name.val),
                                 [name |-> Intern(name.val.txt), bounds |-> <<>>]),
                           name.lex))

\* Name::parse
NameKind(tag) == IF tag = "UpperIdent" THEN "Type" ELSE tag

NameParse(l) ==
    Bind(TokenParse(l, {"Ident", "UpperIdent", "Operator"}),
         LAMBDA tok : Got(Embed(SpanOf(tok.val),
                                [kind |-> NameKind(tok.val.tag), id |-> Intern(tok.val.txt)]),
                          tok.lex))


(***************************************************************************)
(* Expressions from tokens (expr.rs): the parts ExprPart::parse reads are  *)
(* handed to precedence climbing                                           *)
(***************************************************************************)
PartOf(kind, data, span) == [kind |-> kind, data |-> data] @@ span

\* Literal::parse
LiteralPart(l) ==
    Bind(OrElse(TokenParse(l, {"NumberLit"}), LAMBDA x : TokenParse(x, {"StringLit"})),
         LAMBDA tok :
             Got(PartOf("Literal", [kind |-> "Literal", lit |-> TokData(tok.val)],
                        SpanOf(tok.val)),
                 tok.lex))

\* Invokable::parse
InvokablePart(l) ==
    Bind(NameParse(l),
         LAMBDA name :
             Try(Bracketed(name.lex, TypeArgumentParse),
                 LAMBDA generics :
                     Got(PartOf("Invokable",
                                [kind |-> "Invokable",
                                 name |-> [kind |-> name.val.kind, id |-> name.val.id],
                                 generics |-> UnwrapOrDefault(generics).list],
                                Merge(SpanOf(name.val), SpanOf(UnwrapOrDefault(generics)))),
                         generics.lex)))

\* LambdaArgument::parse
LambdaArgumentParse(l) ==
    Bind(TokenParse(l, {"Ident"}),
         LAMBDA name :
             Try(NamedTypeParse(name.lex),
                 LAMBDA ty :
                     Got(Embed(MergeIf(SpanOf(name.val), ty),
                               [name |-> Intern(name.val.txt), ty |-> Opt(ty)]),
                         ty.lex)))

\* parse_and_or_dot_equals: the ExprPart of the token peeked at
ConnectiveOf(tok) ==
    CASE TokData(tok) = Kw(<<"a", "n", "d">>) -> "And"
      [] TokData(tok) = Kw(<<"o", "r">>) -> "Or"
      [] TokData(tok) = Punct(".") -> "Dot"
      [] TokData(tok) = Punct("=") -> "Equals"
      [] OTHER -> ""

\* parse_and_or_dot_equals
ConnectivePart(peeked) ==
    IF peeked.st = "panic" THEN peeked
    ELSE IF ConnectiveOf(peeked.val) = "" THEN Nothing(peeked.lex)
    ELSE Got(PartOf(ConnectiveOf(peeked.val), [kind |-> ConnectiveOf(peeked.val)],
                    SpanOf(peeked.val)),
             LexerNext(peeked.lex).lex)

\* the result of precedence climbing as a ParseResult
FromParts(p, l) ==
    CASE p.status = "ok" -> Got(p.expr, l)
      [] p.status = "none" -> Nothing(l)
      [] p.status = "err" -> Failed(ErrorOf(p.err, "", NoTok, NoTok), l)
      [] OTHER -> Panicked(l)

\* DeclKind::parse
DeclKindParse(peeked) ==
    IF peeked.st = "panic" THEN peeked
    ELSE IF TokData(peeked.val) \in {Kw(<<"l", "e", "t">>), Kw(<<"v", "a", "r">>)}
        THEN LexerNext(peeked.lex)
    ELSE Nothing(peeked.lex)

\* every declaration is taken for a `var`
DeclKindVar(tok) == "Var"

\* DeclKind::Let / DeclKind::Var
DeclKindOf(tok) == IF TokData(tok) = Kw(<<"l", "e", "t">>) THEN "Let" ELSE "Var"

RECURSIVE ExprPartParse(_)
RECURSIVE ExprPartsFrom(_, _)
RECURSIVE ExprDataParse(_)
RECURSIVE BlockPart(_)
RECURSIVE LambdaPart(_)
RECURSIVE ParensPart(_)
RECURSIVE FunCallArgumentParse(_)
RECURSIVE DeclarationParse(_)
RECURSIVE BlockEntryParse(_)

\* the `while let Some(part) = ExprPart::parse(lexer)?` of ExprData::parse
ExprPartsFrom(l, ps) ==
    Try(ExprPartParse(l),
        LAMBDA part :
            IF part.st = "none" THEN Got(ps, part.lex)
            ELSE IF Len(part.lex.tokens) = Len(l.tokens)
                THEN ExpectedGot2("expression", LexerPeek(part.lex))
            ELSE ExprPartsFrom(part.lex, Append(ps, part.val)))

\* ExprData::parse
ExprDataParse(l) ==
    Try(ExprPartsFrom(l, <<>>), LAMBDA ps : FromParts(ParseExprData(ps.val), ps.lex))

\* map(Block::parse, ExprData::Block), as an Expr
BlockExpr(block) == Got(NewExpr(block.val.data, SpanOf(block.val)), block.lex)

\* Declaration::parse
DeclarationParse(l) ==
    Bind(DeclKindParse(LexerPeek(l)),
         LAMBDA kind :
             Try(ParseExpect(TokenParse(kind.lex, {"Ident"}), "variable name"),
                 LAMBDA name :
                     Try(LexerExpect(name.lex, Punct("=")),
                         LAMBDA eq :
                             Try(ParseExpect(ExprDataParse(eq.lex), "expression"),
                                 LAMBDA value :
                                     Got(NewExpr([kind |-> "Declaration",
                                                  decl_kind |-> DeclKindOf(kind.val),
                                                  name |-> Intern(name.val.txt),
                                                  value |-> value.val],
                                                 Merge(SpanOf(kind.val), SpanOf(value.val))),
                                         value.lex)))))

\* an entry of a block: a declaration, or else an expression
BlockEntryParse(l) == OrElse(DeclarationParse(l), ExprDataParse)

\* the `if let Some(span) = lexer.eat(Punctuation::Semicolon)` of Block::parse
WithEmpty(exprs, semicolon) ==
    IF semicolon.st = "some"
        THEN Append(exprs, NewExpr([kind |-> "Empty"], semicolon.val))
        ELSE exprs

\* Block::parse
BlockPart(l) ==
    Bind(LexerEat(l, Punct("{")),
         LAMBDA span1 :
             Try(VecSeparated(span1.lex, BlockEntryParse, Punct(";")),
                 LAMBDA exprs :
                     Try(LexerEat(exprs.lex, Punct(";")),
                         LAMBDA semicolon :
                             Bind(LexerExpect(semicolon.lex, Punct("}")),
                                  LAMBDA span2 :
                                      Got(PartOf("Block",
                                                 [kind |-> "Block",
                                                  exprs |-> WithEmpty(UnwrapOrDefault(exprs).list,
                                                                      semicolon)],
                                                 Merge(span1.val, span2.val)),
                                          span2.lex)))))

\* Lambda::parse
LambdaPart(l) ==
    Bind(EncloseMultiple(l, LambdaArgumentParse, Punct("|"), Punct(","), Punct("|"), TRUE),
         LAMBDA args :
             Try(OrElse(Bind(BlockPart(args.lex), BlockExpr), ExprDataParse),
                 LAMBDA body :
                     IF body.st = "none" THEN Panicked(body.lex)           \* todo!()
                     ELSE Got(PartOf("Lambda",
                                     [kind |-> "Lambda", args |-> args.val.list,
                                      body |-> body.val],
                                     Merge(SpanOf(args.val), SpanOf(body.val))),
                              body.lex)))

\* parse_with_name of FunCallArgument::parse
ParseWithName(l) ==
    OnClone(Bind(TokenParse(l, {"Ident"}),
                 LAMBDA name :
                     Bind(LexerEat(name.lex, Punct(":")),
                          LAMBDA colon :
                              Try(ParseExpect(ExprDataParse(colon.lex), "expression"),
                                  LAMBDA expr :
                                      Got(Embed(Merge(SpanOf(name.val), SpanOf(expr.val)),
                                                [name |-> Intern(name.val.txt),
                                                 expr |-> expr.val]),
                                          expr.lex)))),
            l)

\* map2(ExprData::parse, wrap_expr)
WrapExpr(expr) == Got(Embed(SpanOf(expr.val), [name |-> "", expr |-> expr.val]), expr.lex)

\* FunCallArgument::parse
FunCallArgumentParse(l) ==
    OrElse(ParseWithName(l), LAMBDA x : Bind(ExprDataParse(x), WrapExpr))

\* the `if !exprs.is_empty() { let _ = lexer.eat(Punctuation::Comma); }` of Parens::parse
EatIfAny(exprs, l) == IF Len(exprs) # 0 THEN LexerEat(l, Punct(",")) ELSE Nothing(l)

\* Parens::parse
ParensPart(l) ==
    Bind(LexerEat(l, Punct("(")),
         LAMBDA span1 :
             Try(VecSeparated(span1.lex, FunCallArgumentParse, Punct(",")),
                 LAMBDA exprs :
                     Try(EatIfAny(UnwrapOrDefault(exprs).list, exprs.lex),
                         LAMBDA comma :
                             Bind(LexerExpect(comma.lex, Punct(")")),
                                  LAMBDA span2 :
                                      Got(PartOf("Parens",
                                                 [kind |-> "Parens",
                                                  exprs |-> UnwrapOrDefault(exprs).list],
                                                 Merge(span1.val, span2.val)),
                                          span2.lex)))))

\* ExprPart::parse
ExprPartParse(l) ==
    OrElse(OrElse(OrElse(OrElse(OrElse(LiteralPart(l), InvokablePart), LambdaPart),
                         BlockPart),
                  ParensPart),
           LAMBDA x : ConnectivePart(LexerPeek(x)))


(***************************************************************************)
(* Items (items.rs)                                                        *)
(***************************************************************************)
\* `span = span.merge(expr.span)` where there is an expr
MergeOpt(span, opt) == IF Len(opt) = 0 THEN span ELSE Merge(span, SpanOf(opt[1]))

\* the `if rest.eat(Punctuation::Equals).is_some()` of FunArgument::parse and
\* ClassField::parse: the default value, if one is written
DefaultValue(equals) ==
    IF equals.st = "some"
        THEN Bind(ParseExpect(ExprDataParse(equals.lex), "default value"),
                  LAMBDA expr : Got(<<expr.val>>, expr.lex))
        ELSE Try(equals, LAMBDA x : Got(<<>>, x.lex))

\* FunArgument::parse
FunArgumentParse(l) ==
    Bind(TokenParse(l, {"Ident"}),
         LAMBDA name :
             Try(NamedTypeParse(name.lex),
                 LAMBDA ty :
                     Try(DefaultValue(LexerEat(ty.lex, Punct("="))),
                         LAMBDA default :
                             Got(Embed(MergeOpt(MergeIf(SpanOf(name.val), ty), default.val),
                                       [name |-> Intern(name.val.txt), ty |-> Opt(ty),
                                        default |-> default.val]),
                                 default.lex))))

\* ClassField::parse
ClassFieldParse(l) == FunArgumentParse(l)

\* the body of Function::parse: None after `;`, a block otherwise
FunctionBody(semicolon) ==
    IF semicolon.st = "some" THEN Got(<<>>, semicolon.lex)
    ELSE Try(semicolon,
             LAMBDA x : Bind(ParseExpect(BlockPart(x.lex), "function body"),
                             LAMBDA body : Got(<<BlockExpr(body).val>>, body.lex)))

\* Function::parse
FunctionParse(l) ==
    Bind(LexerEat(l, Kw(<<"f", "u", "n">>)),
         LAMBDA kw :
         Try(ParseExpect(NameParse(kw.lex), "name"),
         LAMBDA name :
         Try(Bracketed(name.lex, GenericParamParse),
         LAMBDA generics :
         Try(EncloseMultipleExpect(generics.lex, FunArgumentParse,
                                   Punct("("), Punct(","), Punct(")"), TRUE),
         LAMBDA args :
         Try(NamedTypeParse(args.lex),
         LAMBDA return_ty :
         Try(FunctionBody(LexerEat(return_ty.lex, Punct(";"))),
         LAMBDA body :
             Got(Embed(MergeOpt(MergeIf(Merge(kw.val, SpanOf(args.val)), return_ty),
                                body.val),
                       [kind |-> "Function",
                        name |-> [kind |-> name.val.kind, id |-> name.val.id],
                        generics |-> UnwrapOrDefault(generics).list,
                        args |-> args.val.list,
                        return_ty |-> Opt(return_ty),
                        body |-> body.val]),
                 body.lex)))))))

\* Class::parse
ClassParse(l) ==
    Bind(LexerEat(l, Kw(<<"c", "l", "a", "s", "s">>)),
         LAMBDA span1 :
         Try(ParseExpect(TokenParse(span1.lex, {"UpperIdent"}), "class name"),
         LAMBDA name :
         Try(Bracketed(name.lex, GenericParamParse),
         LAMBDA generics :
         Try(EncloseMultipleExpect(generics.lex, ClassFieldParse,
                                   Punct("("), Punct(","), Punct(")"), TRUE),
         LAMBDA fields :
         Try(LexerExpect(fields.lex, Punct(";")),
         LAMBDA span2 :
             Got(Embed(Merge(span1.val, span2.val),
                       [kind |-> "Class", name |-> Intern(name.val.txt),
                        generics |-> UnwrapOrDefault(generics).list,
                        fields |-> fields.val.list]),
                 span2.lex))))))

\* EnumVariant::parse
EnumVariantParse(l) ==
    Bind(TokenParse(l, {"Ident"}),
         LAMBDA name :
             Try(EncloseMultiple(name.lex, ClassFieldParse,
                                 Punct("("), Punct(","), Punct(")"), TRUE),
                 LAMBDA arguments :
                     Got(Embed(MergeIf(SpanOf(name.val), arguments),
                               [name |-> Intern(name.val.txt), arguments |-> Opt(arguments)]),
                         arguments.lex)))

\* Enum::parse
EnumParse(l) ==
    Bind(LexerEat(l, Kw(<<"e", "n", "u", "m">>)),
         LAMBDA span :
         Try(ParseExpect(TokenParse(span.lex, {"UpperIdent"}), "enum name"),
         LAMBDA name :
         Try(Bracketed(name.lex, GenericParamParse),
         LAMBDA generics :
         Try(EncloseMultipleExpect(generics.lex, EnumVariantParse,
                                   Punct("{"), Punct(","), Punct("}"), TRUE),
         LAMBDA variants :
             Got(Embed(Merge(span.val, SpanOf(variants.val)),
                       [kind |-> "Enum", name |-> Intern(name.val.txt),
                        generics |-> UnwrapOrDefault(generics).list,
                        variants |-> variants.val.list]),
                 variants.lex)))))

RECURSIVE UseSegments(_, _)
\* the `while lexer.eat(Punctuation::Dot).is_some()` of Use::parse
UseSegments(l, names) ==
    Try(LexerEat(l, Punct(".")),
        LAMBDA dot :
            IF dot.st = "none" THEN Got([names |-> names, wildcard |-> <<>>], dot.lex)
            ELSE Try(LexerEat(dot.lex, Punct("_")),
                     LAMBDA underscore :
                         IF underscore.st = "some"
                             THEN Got([names |-> names, wildcard |-> <<underscore.val>>],
                                      underscore.lex)
                             ELSE Try(ParseExpect(NameParse(underscore.lex), "path segment"),
                                      LAMBDA name : UseSegments(name.lex,
                                                                Append(names, name.val)))))

\* Use::parse
UseParse(l) ==
    Bind(LexerEat(l, Kw(<<"u", "s", "e">>)),
         LAMBDA span1 :
         Try(ParseExpect(NameParse(span1.lex), "path"),
         LAMBDA first :
         Try(UseSegments(first.lex, <<first.val>>),
         LAMBDA path :
         Try(LexerExpect(path.lex, Punct(";")),
         LAMBDA span2 :
             Got(Embed(Merge(span1.val, span2.val),
                       [kind |-> "Use",
                        path |-> Listed(path.val.names,
                                        Merge(SpanOf(path.val.names[1]),
                                              SpanOf(path.val.names[Len(path.val.names)]))),
                        wildcard |-> path.val.wildcard]),
                 span2.lex)))))

\* the `for` of Impl::parse: the trait and the type
ImplFor(trait, for) ==
    IF for.st = "some"
        THEN Bind(ParseExpect(NamedTypeParse(for.lex), "type"),
                  LAMBDA ty : Got([trait |-> <<trait>>, ty |-> ty.val], ty.lex))
        ELSE Try(for, LAMBDA x : Got([trait |-> <<>>, ty |-> trait], x.lex))

RECURSIVE ItemParse(_)
RECURSIVE ItemsFrom(_, _)
RECURSIVE ImplParse(_)

\* `while let Some(item) = Item::parse(lexer)? { items.push(item); }`
ItemsFrom(l, found) ==
    Try(ItemParse(l),
        LAMBDA item :
            IF item.st = "none" THEN Got(found, item.lex)
            ELSE ItemsFrom(item.lex, Append(found, item.val)))

\* Impl::parse
ImplParse(l) ==
    Bind(LexerEat(l, Kw(<<"i", "m", "p", "l">>)),
         LAMBDA span1 :
         Try(Bracketed(span1.lex, GenericParamParse),
         LAMBDA generics :
         Try(ParseExpect(NamedTypeParse(generics.lex), "type or trait"),
         LAMBDA trait :
         Try(ImplFor(trait.val, LexerEat(trait.lex, Kw(<<"f", "o", "r">>))),
         LAMBDA for :
         Try(LexerExpect(for.lex, Punct("{")),
         LAMBDA items_span1 :
         Try(ItemsFrom(items_span1.lex, <<>>),
         LAMBDA found :
         Try(LexerExpect(found.lex, Punct("}")),
         LAMBDA items_span2 :
             Got(Embed(Merge(span1.val, Merge(items_span1.val, items_span2.val)),
                       [kind |-> "Impl", generics |-> UnwrapOrDefault(generics).list,
                        trait |-> for.val.trait, ty |-> for.val.ty,
                        items |-> found.val]),
                 items_span2.lex))))))))

\* at EOF an item is found and no token is taken
ItemParseAtEof(l) ==
    IF Len(l.tokens) > 0 /\ l.tokens[1].tag = "Eof"
        THEN Got(Embed(SpanOf(l.tokens[1]), [kind |-> "Use"]), l)
        ELSE OrElse(OrElse(OrElse(OrElse(FunctionParse(l), ClassParse), EnumParse),
                           ImplParse), UseParse)

\* Item::parse
ItemParse(l) ==
    OrElse(OrElse(OrElse(OrElse(FunctionParse(l), ClassParse), EnumParse), ImplParse), UseParse)

(***************************************************************************)
(* Validation of items (validation.rs)                                     *)
(***************************************************************************)
RECURSIVE ValidateFunArgsForgetful(_, _, _)
\* default_found is not kept from one argument to the next
ValidateFunArgsForgetful(args, i, default_found) ==
    IF i > Len(args) THEN VOk
    ELSE IF Len(args[i].ty) = 0 THEN VErr("ExpectedArgType", "")
    ELSE IF Len(args[i].default) > 0
        THEN Then(ValidateExpr(args[i].default[1], "Other"),
                  ValidateFunArgsForgetful(args, i + 1, FALSE))
    ELSE IF default_found THEN VErr("NoDefaultAfterDefault", "")
    ELSE ValidateFunArgsForgetful(args, i + 1, FALSE)

RECURSIVE ValidateFunArgs(_, _, _)
\* the `for arg in &**self.args` of Function::validate from argument i on
ValidateFunArgs(args, i, default_found) ==
    IF i > Len(args) THEN VOk
    ELSE IF Len(args[i].ty) = 0 THEN VErr("ExpectedArgType", "")
    ELSE IF Len(args[i].default) > 0
        THEN Then(ValidateExpr(args[i].default[1], "Other"),
                  ValidateFunArgs(args, i + 1, TRUE))
    ELSE IF default_found THEN VErr("NoDefaultAfterDefault", "")
    ELSE ValidateFunArgs(args, i + 1, default_found)

\* Function::validate(state)
ValidateFunction(f, state) ==
    Then(ValidateFunArgs(f.args, 1, FALSE),
         IF Len(f.return_ty) = 0 THEN VErr("ExpectedReturnType", "")
         ELSE IF Len(f.body) > 0 THEN ValidateExpr(f.body[1], "Other")
         ELSE IF state = "Complete" THEN VErr("ExpectedFunctionBody", "")
         ELSE VOk)

RECURSIVE ValidateItem(_)
RECURSIVE ValidateItems(_, _)

\* the `for item in self.items.iter()` of Impl::validate
ForbiddenItems(found) ==
    IF \E i \in 1..Len(found) : found[i].kind # "Function"
        THEN VErr("ForbiddenItemInImpl",
                  found[CHOOSE i \in 1..Len(found) :
                            /\ found[i].kind # "Function"
                            /\ \A j \in 1..(i - 1) : found[j].kind = "Function"].kind)
        ELSE VOk

\* functions are validated with FunctionType::NoBody
ValidateItemNoBody(item) ==
    CASE item.kind = "Function" -> ValidateFunction(item, "NoBody")
      [] item.kind = "Impl" -> Then(ForbiddenItems(item.items), ValidateItems(item.items, 1))
      [] OTHER -> VOk

\* Item::validate
ValidateItem(item) ==
    CASE item.kind = "Function" -> ValidateFunction(item, "Complete")
      [] item.kind = "Impl" -> Then(ForbiddenItems(item.items), ValidateItems(item.items, 1))
      [] OTHER -> VOk

\* <[Spanned<Item>] as Validate>::validate from item i on
ValidateItems(found, i) ==
    IF i > Len(found) THEN VOk
    ELSE Then(ValidateItem(found[i]), ValidateItems(found, i + 1))


(***************************************************************************)
(* The parser specification: a text is tokenized by lex(), the tokens are  *)
(* parsed by parse(): the loop over Item::parse, finish() and validate()   *)
(***************************************************************************)
MaxWords == 2

\* a word of every kind of token the item parsers look at
Words ==
    {\* `fun`
     <<"f", "u", "n">>,
     \* `f`
     <<"f">>,
     \* `T`
     <<"T">>,
     \* `(`
     <<"(">>,
     \* `)`
     <<")">>,
     \* `{`
     <<"{">>,
     \* `}`
     <<"}">>,
     \* `;`
     <<";">>,
     \* `1`
     <<"1">>,
     \* `=`
     <<"=">>}


RECURSIVE Joined(_)
\* the words, one blank between two of them
Joined(ws) ==
    IF Len(ws) = 0 THEN <<>>
    ELSE IF Len(ws) = 1 THEN ws[1]
    ELSE ws[1] \o <<" ">> \o Joined(Tail(ws))

\* the name, the generics and the arguments of a function
Headers ==
    {\* `fun foo()`
     <<"f", "u", "n", " ", "f", "o", "o", "(", ")">>,
     \* `fun f[T](x T, a T = 1)`
     <<"f", "u", "n", " ", "f", "[", "T", "]", "(", "x", " ", "T", ",", " ",
       "a", " ", "T", " ", "=", " ", "1", ")">>,
     \* `fun f(x, a T)`
     <<"f", "u", "n", " ", "f", "(", "x", ",", " ", "a", " ", "T", ")">>,
     \* `fun +(a T = 1, x T)`
     <<"f", "u", "n", " ", "+", "(", "a", " ", "T", " ", "=", " ", "1", ",",
       " ", "x", " ", "T", ")">>}

\* the return type of a function, or none
Returns ==
    {\* ``
     <<>>,
     \* ` Bool`
     <<" ", "B", "o", "o", "l">>,
     \* ` T[T, _]`
     <<" ", "T", "[", "T", ",", " ", "_", "]">>}

\* the body of a function, or what stands in its place
Bodies ==
    {\* `;`
     <<";">>,
     \* ` { }`
     <<" ", "{", " ", "}">>,
     \* ` { x }`
     <<" ", "{", " ", "x", " ", "}">>,
     \* ` { let x = 5 Int; x }`
     <<" ", "{", " ", "l", "e", "t", " ", "x", " ", "=", " ", "5", " ", "I",
       "n", "t", ";", " ", "x", " ", "}">>,
     \* ` { x = 1; }`
     <<" ", "{", " ", "x", " ", "=", " ", "1", ";", " ", "}">>,
     \* ` { f(a: 1, 2) }`
     <<" ", "{", " ", "f", "(", "a", ":", " ", "1", ",", " ", "2", ")", " ",
       "}">>,
     \* ` { f(1, a: 2) }`
     <<" ", "{", " ", "f", "(", "1", ",", " ", "a", ":", " ", "2", ")", " ",
       "}">>,
     \* ` { 1 + 2 * 3 }`
     <<" ", "{", " ", "1", " ", "+", " ", "2", " ", "*", " ", "3", " ", "}">>,
     \* ` { 1 = 2 }`
     <<" ", "{", " ", "1", " ", "=", " ", "2", " ", "}">>,
     \* ` { |x T| x }`
     <<" ", "{", " ", "|", "x", " ", "T", "|", " ", "x", " ", "}">>,
     \* ` { x.f(1) T }`
     <<" ", "{", " ", "x", ".", "f", "(", "1", ")", " ", "T", " ", "}">>,
     \* ` { x`
     <<" ", "{", " ", "x">>,
     \* ` { var = }`
     <<" ", "{", " ", "v", "a", "r", " ", "=", " ", "}">>,
     \* ` { and }`
     <<" ", "{", " ", "a", "n", "d", " ", "}">>,
     \* ` { f(x,, }`
     <<" ", "{", " ", "f", "(", "x", ",", ",", " ", "}">>,
     \* ` { .x.f }`
     <<" ", "{", " ", ".", "x", ".", "f", " ", "}">>,
     \* ` { x.{ } }`
     <<" ", "{", " ", "x", ".", "{", " ", "}", " ", "}">>,
     \* ` { |x| }`
     <<" ", "{", " ", "|", "x", "|", " ", "}">>}

\* what follows the function
Trailers ==
    {\* ``
     <<>>,
     \* ` )`
     <<" ", ")">>,
     \* ` fun f() T { }`
     <<" ", "f", "u", "n", " ", "f", "(", ")", " ", "T", " ", "{", " ", "}">>,
     \* ` use a.f;`
     <<" ", "u", "s", "e", " ", "a", ".", "f", ";">>}

\* classes, enums, impls and uses
OtherItems ==
    {\* `impl T { fun f() { } }`
     <<"i", "m", "p", "l", " ", "T", " ", "{", " ", "f", "u", "n", " ",
       "f", "(", ")", " ", "{", " ", "}", " ", "}">>,
     \* `impl T { fun f() T { } fun f() T; }`
     <<"i", "m", "p", "l", " ", "T", " ", "{", " ", "f", "u", "n", " ",
       "f", "(", ")", " ", "T", " ", "{", " ", "}", " ", "f", "u", "n",
       " ", "f", "(", ")", " ", "T", ";", " ", "}">>,
     \* `class T(x T, a T = 1);`
     <<"c", "l", "a", "s", "s", " ", "T", "(", "x", " ", "T", ",", " ", "a",
       " ", "T", " ", "=", " ", "1", ")", ";">>,
     \* `class T[T]()`
     <<"c", "l", "a", "s", "s", " ", "T", "[", "T", "]", "(", ")">>,
     \* `enum T { a, f(x T), }`
     <<"e", "n", "u", "m", " ", "T", " ", "{", " ", "a", ",", " ", "f", "(",
       "x", " ", "T", ")", ",", " ", "}">>,
     \* `enum T[T] { a(x) `
     <<"e", "n", "u", "m", " ", "T", "[", "T", "]", " ", "{", " ", "a", "(",
       "x", ")", " ">>,
     \* `impl T { fun f() T { } }`
     <<"i", "m", "p", "l", " ", "T", " ", "{", " ", "f", "u", "n", " ", "f",
       "(", ")", " ", "T", " ", "{", " ", "}", " ", "}">>,
     \* `impl[T] T for T { class T(); }`
     <<"i", "m", "p", "l", "[", "T", "]", " ", "T", " ", "f", "o", "r", " ",
       "T", " ", "{", " ", "c", "l", "a", "s", "s", " ", "T", "(", ")",
       ";", " ", "}">>,
     \* `impl T for { }`
     <<"i", "m", "p", "l", " ", "T", " ", "f", "o", "r", " ", "{", " ", "}">>,
     \* `impl T { fun f() T; }`
     <<"i", "m", "p", "l", " ", "T", " ", "{", " ", "f", "u", "n", " ", "f",
       "(", ")", " ", "T", ";", " ", "}">>,
     \* `use a.f;`
     <<"u", "s", "e", " ", "a", ".", "f", ";">>,
     \* `use a._;`
     <<"u", "s", "e", " ", "a", ".", "_", ";">>,
     \* `use a.;`
     <<"u", "s", "e", " ", "a", ".", ";">>,
     \* `use ;`
     <<"u", "s", "e", " ", ";">>,
     \* `use T.+`
     <<"u", "s", "e", " ", "T", ".", "+">>,
     \* `class T(); enum T { } use f;`
     <<"c", "l", "a", "s", "s", " ", "T", "(", ")", ";", " ", "e", "n", "u",
       "m", " ", "T", " ", "{", " ", "}", " ", "u", "s", "e", " ", "f",
       ";">>,
     \* `class f();`
     <<"c", "l", "a", "s", "s", " ", "f", "(", ")", ";">>,
     \* `enum { }`
     <<"e", "n", "u", "m", " ", "{", " ", "}">>}


\* `fun foo() Bool { let x = 5 Int; x }`
FooText ==
    <<"f", "u", "n", " ", "f", "o", "o", "(", ")", " ", "B", "o", "o", "l",
    " ", "{", " ", "l", "e", "t", " ", "x", " ", "=", " ", "5", " ", "I",
    "n", "t", ";", " ", "x", " ", "}">>

MaxParams == 3

\* a parameter: `x T`, `a T = 1`, `x` (no type), `a T = 1 = 2` (a default
\* that does not validate)
Params ==
    {<<"x", " ", "T">>, <<"a", " ", "T", " ", "=", " ", "1">>, <<"x">>,
     <<"a", " ", "T", " ", "=", " ", "1", " ", "=", " ", "2">>}

RECURSIVE CommaJoined(_)
\* the parameters, `, ` between two of them
CommaJoined(ps) ==
    IF Len(ps) = 0 THEN <<>>
    ELSE IF Len(ps) = 1 THEN ps[1]
    ELSE ps[1] \o <<",", " ">> \o CommaJoined(Tail(ps))

\* `fun f(` parameters `) T { }`
WithParams(ps) ==
    <<"f", "u", "n", " ", "f", "(">> \o CommaJoined(ps)
        \o <<")", " ", "T", " ", "{", " ", "}">>

\* the texts parse() is run on, by the number n of what follows the header
Programs(n) ==
    IF n = 0 THEN {Joined(ws) : ws \in SeqsUpTo(Words, MaxWords)} \cup OtherItems
    ELSE IF n = 1
        THEN {h \o r \o b \o t : h \in Headers, r \in Returns, b \in Bodies, t \in Trailers}
    ELSE {WithParams(ps) : ps \in SeqsUpTo(Params, MaxParams)}


NoError == [ErrorOf("", "", NoTok, NoTok) EXCEPT !.rest = <<>>]

\* Result<Vec<Spanned<Item>>, Error>
Returned(status, error, found) == [status |-> status, error |-> error, items |-> found]

\* Error::ValidationError(e), by #[from]
ValidationError(e) == [ErrorOf("ValidationError", e.err, NoTok, NoTok) EXCEPT !.inner = e]

InitParse ==
    /\ \E n \in 0..2 : text \in Programs(n)
    /\ given = NoGiven
    /\ LexStart
    /\ ExprIdle

\* an error or a panic of the loop is what parse() ends with
ItemsDone(found) ==
    /\ items' = found
    /\ lexer' = found.lex
    /\ IF found.st = "some"
          THEN /\ cpc' = "items"
               /\ result' = result
          ELSE /\ cpc' = "done"
               /\ result' = Returned(found.st,
                                     IF found.st = "err" THEN found.val ELSE NoError, <<>>)

\* parse(tokens): Lexer::from_tokens(tokens) and the `while let` of parse_items
ParseItems ==
    /\ lpc = "done"
    /\ cpc = "idle"
    /\ ItemsDone(ItemsFrom(FromTokens(v), <<>>))
    /\ UNCHANGED lexVars
    /\ UNCHANGED exprVars

\* `self.finish()?`
Finish ==
    /\ cpc = "items"
    /\ IF LexerFinish(lexer).st = "some"
          THEN /\ cpc' = "finished"
               /\ result' = result
          ELSE /\ cpc' = "done"
               /\ result' = Returned("err", LexerFinish(lexer).val, <<>>)
    /\ UNCHANGED <<lexer, items>>
    /\ UNCHANGED lexVars
    /\ UNCHANGED exprVars

\* `results.validate(())?; Ok(results)`
ValidateResults ==
    /\ cpc = "finished"
    /\ result' = IF ValidateItems(items.val, 1).ok
                     THEN Returned("ok", NoError, items.val)
                     ELSE Returned("err", ValidationError(ValidateItems(items.val, 1)), <<>>)
    /\ cpc' = "done"
    /\ UNCHANGED <<lexer, items>>
    /\ UNCHANGED lexVars
    /\ UNCHANGED exprVars

NextParse == LexStep \/ LexEof \/ ParseItems \/ Finish \/ ValidateResults

SpecParse == InitParse /\ [][NextParse]_vars

(***************************************************************************)
(* The cursor on its own: any of its calls on any short slice of tokens.   *)
(***************************************************************************)
MaxSlice == 2
MaxCalls == 3

\* the tokens a call is made with
Asked == {Punct("("), Kw(<<"f", "u", "n">>), Eof}

\* the tokens of a slice, one column each, and the EOF token behind them
SliceOf(data) ==
    [i \in 1..Len(data) + 1 |->
        IF i <= Len(data) THEN Embed([start |-> i - 1, end |-> i], data[i])
        ELSE Embed([start |-> Len(data), end |-> Len(data)], Eof)]

Slices == {SliceOf(data) : data \in SeqsUpTo(Asked \ {Eof}, MaxSlice)}

NoCall == [op |-> "", asked |-> NoTok, ret |-> Nothing(FromTokens(<<>>))]

InitCursor ==
    /\ LexIdle
    /\ parts = NoParts
    /\ ppc = "idle"
    /\ parsed = NoResult
    /\ validated = NoResult
    /\ items = NoResult
    /\ lexer \in {FromTokens(s) : s \in Slices}
    /\ result = NoCall
    /\ cpc = "cursor"

\* the call op, made with the token asked, has returned ret
CallReturns(op, asked, ret) ==
    /\ cpc = "cursor"
    /\ Len(lexer.ops) < MaxCalls
    /\ lexer' = ret.lex
    /\ result' = [op |-> op, asked |-> asked, ret |-> ret]
    /\ cpc' = IF ret.st = "panic" THEN "done" ELSE "cursor"
    /\ UNCHANGED items
    /\ UNCHANGED lexVars
    /\ UNCHANGED exprVars

Peek == CallReturns("peek", NoTok, LexerPeek(lexer))

NextToken == CallReturns("next", NoTok, LexerNext(lexer))

Eat == \E token \in Asked : CallReturns("eat", token, LexerEat(lexer, token))

Expect == \E token \in Asked : CallReturns("expect", token, LexerExpect(lexer, token))

NextCursor == Peek \/ NextToken \/ Eat \/ Expect

SpecCursor == InitCursor /\ [][NextCursor]_vars

(***************************************************************************)
(* A punctuation character standing alone                                  *)
(***************************************************************************)
\* the characters that Punctuation displays as (ast/src/punct.rs)
Punctuation == {".", ",", ":", ";", "=", "&", "|", "?", "\\", "@", "_",
                "(", ")", "[", "]", "{", "}"}

\* whitespace and line comments that may stand before and behind
Before == {<<>>, <<" ">>, <<"\n", "\t">>, <<"#", "o", "\n">>}
Behind == {<<>>, <<" ">>, <<"\n">>, <<" ", "#", "o">>}

InitAlone ==
    /\ \E c \in Punctuation : \E pre \in Before : \E post \in Behind :
           text = pre \o <<c>> \o post
    /\ given = NoGiven
    /\ LexStart
    /\ ExprIdle

SpecAlone == InitAlone /\ [][NextLex]_vars

(***************************************************************************)
(* Lexing a text, and lexing it again with whitespace or a line comment    *)
(* put between two neighbouring tokens.                                    *)
(***************************************************************************)
MaxText == 3

WsAlphabet == {"o", "1", ".", " ", "#", "\n", "\"", "$"}

\* `o.1 1`, `"o" o`, `1 #o` newline `.1`
WsExamples ==
    {<<"o", ".", "1", " ", "1">>, <<"\"", "o", "\"", " ", "o">>,
     <<"1", " ", "#", "o", "\n", ".", "1">>}

\* what is put in: blanks, a line break, a line comment with its line break
Inserted == {<<" ">>, <<"\n", " ">>, <<"#", "o", "\n">>}

\* offset p of t, reached from offset from, lies in a line comment
InComment(t, from, p) ==
    \E j \in (from + 1)..p : t[j] = "#" /\ \A k \in (j + 1)..p : t[k] # "\n"

InitWs ==
    /\ text \in SeqsUpTo(WsAlphabet, MaxText) \cup WsExamples
    /\ given = NoGiven
    /\ LexStart
    /\ ExprIdle

\* the text is lexed, w is put in at offset p behind token i and before
\* token i + 1, and the text is lexed again
InsertAt(i, p, w) ==
    /\ ~InComment(text, v[i].end, p)
    /\ given' = [base |-> text, tokens |-> v, after |-> i, at |-> p, ins |-> w]
    /\ text' = SubSeq(text, 1, p) \o w \o SubSeq(text, p + 1, Len(text))
    /\ pos' = 0
    /\ was_word' = FALSE
    /\ v' = <<>>
    /\ lpc' = "scan"

Insert ==
    /\ lpc = "done"
    /\ given = NoGiven
    /\ \E i \in 1..(Len(v) - 1) : \E p \in v[i].end..v[i + 1].start : \E w \in Inserted :
           InsertAt(i, p, w)
    /\ UNCHANGED exprVars
    /\ UNCHANGED parseVars

NextWs == LexStep \/ LexEof \/ Insert

SpecWs == InitWs /\ [][NextWs]_vars

(***************************************************************************)
(* Properties of the tokenizer                                             *)
(***************************************************************************)
EofToken == Spanned(Data("Eof", "", <<>>), Len(text), Len(text))

\* s is, on its own, the lexeme of one valid word-class token
IsWordLexeme(s) ==
    /\ Len(s) > 0
    /\ LET it == NextIToken(s, 0)
       IN it.len = Len(s) /\ IsWord(TokenOf(it.kind, s))

\* the scanner reads t as a word-class token of length k directly followed by
\* a word-class token that ends the text
ScannedAsTwoWords(t, k) ==
    LET a == NextIToken(t, 0)
        b == NextIToken(t, k)
    IN /\ a.len = k
       /\ b.len = Len(t) - k
       /\ IsWord(TokenOf(a.kind, Slice(t, 0, k)))
       /\ IsWord(TokenOf(b.kind, Slice(t, k, Len(t))))

\* t is the word lexeme t[0..k), a whitespace/comment run t[k..j) and the word
\* lexeme t[j..]
WordsApart(t, k, j) ==
    /\ IsWordLexeme(Slice(t, 0, k))
    /\ IsWordLexeme(Slice(t, j, Len(t)))
    /\ NextIToken(t, k) = [kind |-> "Ws", len |-> j - k]

\* C1 as stated: the concatenation of any two word lexemes tokenizes to
\* exactly one NoWs error token spanning both.
C1_AnyTwoLexemesMerge ==
    lpc = "done" =>
        \A k \in 1..(Len(text) - 1) :
            IsWordLexeme(Slice(text, 0, k)) /\ IsWordLexeme(Slice(text, k, Len(text)))
                => v = <<Spanned(ErrorData("NoWs", ""), 0, Len(text)), EofToken>>

\* C1, amended: two word-class tokens that the scanner yields back-to-back,
\* with nothing between them, are replaced by exactly one NoWs error token
\* spanning both; two word lexemes with a whitespace/comment run between them
\* tokenize to the two separate valid tokens.
C1_AdjacentWordTokensMerge ==
    lpc = "done" =>
        /\ \A k \in 1..(Len(text) - 1) :
               ScannedAsTwoWords(text, k)
                   => v = <<Spanned(ErrorData("NoWs", ""), 0, Len(text)), EofToken>>
        /\ \A k \in 1..Len(text), j \in 1..Len(text) :
               k < j /\ WordsApart(text, k, j)
                   => /\ Len(v) = 3
                      /\ v[1] = Spanned(TokenOf(NextIToken(text, 0).kind, Slice(text, 0, k)), 0, k)
                      /\ v[2] = Spanned(TokenOf(NextIToken(text, j).kind, Slice(text, j, Len(text))),
                                        j, Len(text))
                      /\ IsWord(v[1]) /\ IsWord(v[2])
                      /\ v[3] = EofToken

C1_Witness ==
    /\ lpc = "done"
    /\ \E k \in 1..(Len(text) - 1) : ScannedAsTwoWords(text, k)
    /\ Len(v) = 2
    /\ v[1].sub = "NoWs"

\* C2: no token is Eof while the loop runs; when lex has returned, the last
\* token is the only Eof and its span is the empty range [len, len) at the
\* end of the text.
C2_OneEofLast ==
    /\ \A i \in 1..Len(v) : v[i].tag = "Eof" => lpc = "done" /\ i = Len(v)
    /\ lpc = "done" => Len(v) >= 1 /\ v[Len(v)] = EofToken

C2_Witness ==
    /\ lpc = "done"
    /\ Len(text) >= 2
    /\ Len(v) >= 3
    /\ v[Len(v)].tag = "Eof"

(***************************************************************************)
(* Properties of integer literals                                          *)
(***************************************************************************)
VariantOf(sign) == IF sign = "+" THEN "UInt" ELSE "Int"

\* the token of the value the literal was rendered from
TokenOfGiven ==
    Spanned(NumberData([variant |-> VariantOf(given.sign),
                        neg |-> given.sign = "-" /\ given.mag # Ext(ZeroMag),
                        mag |-> SubSeq(given.mag, 1, NLimbs)]),
            0, Len(text))

\* C3: a literal whose magnitude is larger than its sign allows (above
\* i64::MAX with no sign, above 2^63 with '-', above u64::MAX with '+')
\* lexes to one NumberOverflow error token, in every radix; the largest
\* magnitude itself lexes to a number.
C3_OverflowReported ==
    lpc = "done" =>
        /\ ~Representable(given)
               => v = <<Spanned(ErrorData("NumberOverflow", ""), 0, Len(text)), EofToken>>
        /\ AtLimit(given) => v[1].tag = "NumberLit" /\ v[1].mag = LimitOf(given.sign)

C3_Witness ==
    /\ lpc = "done"
    /\ OnePast(given)
    /\ given.sign = "-"
    /\ given.radix = 2
    /\ v[1].sub = "NumberOverflow"

\* C4: an integer literal with no sign or with '-' is an Int, one with '+'
\* is a UInt.
C4_SignSelectsVariant ==
    lpc = "done" /\ v[1].tag = "NumberLit" =>
        /\ given.sign \in {"", "-"} => v[1].sub = "Int"
        /\ given.sign = "+" => v[1].sub = "UInt"

C4_Witness ==
    /\ lpc = "done"
    /\ given.sign = "+"
    /\ AtLimit(given)
    /\ v[1].tag = "NumberLit"
    /\ v[1].sub = "UInt"

\* C5: the rendering (optional sign, radix prefix, digits) of a value the
\* sign's type can hold lexes to one number token of exactly that value.
C5_RoundTrip ==
    lpc = "done" /\ Representable(given) => v = <<TokenOfGiven, EofToken>>

C5_Witness ==
    /\ lpc = "done"
    /\ given.sign = "-"
    /\ given.radix = 16
    /\ AtLimit(given)
    /\ v[1].tag = "NumberLit"
    /\ v[1].neg

(***************************************************************************)
(* Properties of number-shaped runs                                        *)
(***************************************************************************)
SignLen(t) == IF Len(t) > 0 /\ t[1] \in {"+", "-"} THEN 1 ELSE 0

\* the radix a run announces by its prefix
RunRadix(t) ==
    LET x == IF At(t, SignLen(t)) = "0" THEN At(t, SignLen(t) + 1) ELSE "EOT"
    IN CASE x \in {"x", "X"} -> 16
         [] x \in {"b", "B"} -> 2
         [] x \in {"o", "O"} -> 8
         [] OTHER -> 10

\* the characters after the sign and the prefix
RunBody(t) ==
    SubSeq(t, SignLen(t) + (IF RunRadix(t) = 10 THEN 0 ELSE 2) + 1, Len(t))

\* t is an optional sign, a digit, and characters of the number pattern's
\* integer part; a decimal run has no exponent
IsIntegerRun(t) ==
    /\ Len(t) > SignLen(t)
    /\ t[SignLen(t) + 1] \in Digit
    /\ \A i \in (SignLen(t) + 1)..Len(t) : t[i] \in NumCont
    /\ RunRadix(t) = 10 => \A i \in 1..Len(t) : t[i] \notin {"e", "E"}

\* the places of the body that hold no digit of the radix
BadAt(t) ==
    {i \in 1..Len(RunBody(t)) :
        RunBody(t)[i] # "_" /\ ToDigit(RunBody(t)[i], RunRadix(t)) < 0}

FirstBad(t) == CHOOSE i \in BadAt(t) : \A j \in BadAt(t) : i <= j

\* the digits before the first bad character fit the literal's type
FitsBefore(t) ==
    ParseIntDigits(IF SignLen(t) = 1 /\ t[1] = "+" THEN U64 ELSE I64,
                   SignLen(t) = 1 /\ t[1] = "-",
                   SubSeq(RunBody(t), 1, FirstBad(t) - 1), RunRadix(t)).ok

Parsed == ppc # "idle"

InfixKinds == {"MemberCall", "Operation", "ShortcircuitingOp", "Assignment"}
PostfixKinds == {"ParenCall", "TypeAscription"}

\* how tightly the form at the root of e binds, by the order the claim gives
Tightness(e) ==
    CASE e.kind = "Assignment" -> 1
      [] e.kind = "ShortcircuitingOp" /\ e.operator = "Or" -> 2
      [] e.kind = "ShortcircuitingOp" /\ e.operator = "And" -> 3
      [] e.kind = "Operation" -> 4
      [] e.kind \in PostfixKinds -> 5
      [] e.kind = "MemberCall" -> 6
      [] OTHER -> 7

LeftOf(e) ==
    CASE e.kind \in {"MemberCall", "ParenCall"} -> e.receiver
      [] e.kind = "TypeAscription" -> e.expr
      [] OTHER -> e.lhs

RightOf(e) == IF e.kind = "MemberCall" THEN e.member ELSE e.rhs

\* the part (kind and name) an operand was made from
Leaf(e) ==
    [kind |-> IF e.kind = "Tuple" THEN "Parens" ELSE e.kind,
     id |-> CASE e.kind = "Invokable" -> e.name.id
              [] e.kind = "Literal" -> e.lit
              [] OTHER -> ""]

PartLeaf(part) ==
    [kind |-> part.kind,
     id |-> CASE part.kind = "Invokable" -> part.data.name.id
              [] part.kind = "Literal" -> part.data.lit
              [] OTHER -> ""]

RECURSIVE Yield(_)
\* the parts of an expression from left to right
Yield(e) ==
    CASE e.kind = "ParenCall" -> Append(Yield(e.receiver), [kind |-> "Parens", id |-> ""])
      [] e.kind = "TypeAscription" ->
            Append(Yield(e.expr), [kind |-> "Invokable", id |-> e.ty.name])
      [] e.kind = "MemberCall" ->
            Yield(e.receiver) \o <<[kind |-> "Dot", id |-> ""]>> \o Yield(e.member)
      [] e.kind = "Operation" ->
            Yield(e.lhs) \o <<[kind |-> "Invokable", id |-> e.operator]>> \o Yield(e.rhs)
      [] e.kind = "ShortcircuitingOp" ->
            Yield(e.lhs) \o <<[kind |-> e.operator, id |-> ""]>> \o Yield(e.rhs)
      [] e.kind = "Assignment" ->
            Yield(e.lhs) \o <<[kind |-> "Equals", id |-> ""]>> \o Yield(e.rhs)
      [] OTHER -> <<Leaf(e)>>

RECURSIVE Grouped(_)
\* at every node: an infix form on the left binds at least as tightly (more
\* tightly under `=`), an infix or postfix form on the right binds more
\* tightly (at least as tightly under `=`)
Grouped(e) ==
    IF e.kind \notin InfixKinds \cup PostfixKinds THEN TRUE
    ELSE /\ LeftOf(e).kind \in InfixKinds
                => \/ Tightness(LeftOf(e)) > Tightness(e)
                   \/ Tightness(LeftOf(e)) = Tightness(e) /\ e.kind # "Assignment"
         /\ Grouped(LeftOf(e))
         /\ e.kind \in InfixKinds
                => /\ RightOf(e).kind \in InfixKinds \cup PostfixKinds
                        => \/ Tightness(RightOf(e)) > Tightness(e)
                           \/ Tightness(RightOf(e)) = Tightness(e) /\ e.kind = "Assignment"
                   /\ Grouped(RightOf(e))

\* an expression without its spans: kind, name and sub-expressions
Node(k, id, sub) == [k |-> k, id |-> id, sub |-> sub]
Named(id) == Node("Invokable", id, <<>>)

RECURSIVE Shape(_)
Shape(e) ==
    CASE e.kind = "ParenCall" ->
            Node("ParenCall", "", <<Shape(e.receiver)>> \o [j \in 1..Len(e.args) |-> Shape(e.args[j].expr)])
      [] e.kind = "TypeAscription" -> Node("TypeAscription", e.ty.name, <<Shape(e.expr)>>)
      [] e.kind = "MemberCall" -> Node("MemberCall", "", <<Shape(e.receiver), Shape(e.member)>>)
      [] e.kind \in {"Operation", "ShortcircuitingOp"} ->
            Node(e.kind, e.operator, <<Shape(e.lhs), Shape(e.rhs)>>)
      [] e.kind = "Assignment" -> Node("Assignment", "", <<Shape(e.lhs), Shape(e.rhs)>>)
      [] e.kind = "Block" -> Node("Block", "", [j \in 1..Len(e.exprs) |-> Shape(e.exprs[j])])
      [] e.kind = "Tuple" -> Node("Tuple", "", [j \in 1..Len(e.exprs) |-> Shape(e.exprs[j].expr)])
      [] e.kind = "Lambda" -> Node("Lambda", "", <<Shape(e.body)>>)
      [] OTHER -> Node(e.kind, Leaf(e).id, <<>>)

\* MemberCall(ParenCall(a, [b]), c)
CallThenMemberShape ==
    Node("MemberCall", "", <<Node("ParenCall", "", <<Named("a"), Named("b")>>), Named("c")>>)

\* Assignment(x, TypeAscription(ParenCall(MemberCall(x, map), [y]), T))
AssignAscribedShape ==
    Node("Assignment", "",
         <<Named("x"),
           Node("TypeAscription", "T",
                <<Node("ParenCall", "",
                       <<Node("MemberCall", "", <<Named("x"), Named("map")>>), Named("y")>>)>>)>>)

\* Assignment(a, Assignment(b, c))
AssignTwiceShape ==
    Node("Assignment", "", <<Named("a"), Node("Assignment", "", <<Named("b"), Named("c")>>)>>)

\* C7: a part list of two or more parts that parses is grouped by the
\* binding powers: the expression reads as the parts in their order, `.`
\* binds tighter than the postfix forms, these tighter than an operator,
\* then `and`, `or`, `=`; `.`, operators, `and`, `or` group to the left, `=`
\* to the right; a(b).c, x = x.map(y) T and a = b = c parse as stated.
C7_GroupedByBindingPower ==
    Parsed =>
        /\ parsed.status = "ok" /\ Len(parts) >= 2
               => /\ Yield(parsed.expr) = [i \in 1..Len(parts) |-> PartLeaf(parts[i])]
                  /\ Grouped(parsed.expr)
        /\ parts = PlaceList(CallThenMember, 0)
               => parsed.status = "ok" /\ Shape(parsed.expr) = CallThenMemberShape
        /\ parts = PlaceList(AssignAscribed, 0)
               => parsed.status = "ok" /\ Shape(parsed.expr) = AssignAscribedShape
        /\ parts = PlaceList(AssignTwice, 0)
               => parsed.status = "ok" /\ Shape(parsed.expr) = AssignTwiceShape

C7_Witness ==
    /\ ppc = "parsed"
    /\ parts = PlaceList(AssignAscribed, 0)
    /\ parsed.status = "ok"
    /\ parsed.expr.kind = "Assignment"
    /\ parsed.expr.rhs.kind = "TypeAscription"

\* a part assert_is_operator takes for an operand
IsStray(part) ==
    IsInvk(part, "Ident") \/ part.kind \in {"Literal", "Lambda", "Block"}

RECURSIVE FirstStrayFrom(_, _, _)
\* the first part that stands where an operator is expected though it is an
\* operand, 0 when there is none; operand says whether ps[i] is read as one
FirstStrayFrom(ps, i, operand) ==
    IF i > Len(ps) THEN 0
    ELSE IF operand THEN FirstStrayFrom(ps, i + 1, FALSE)
    ELSE IF IsStray(ps[i]) THEN i
    ELSE FirstStrayFrom(ps, i + 1, Len(PostfixBindingPower(ps[i])) = 0)

FirstStray(ps) == FirstStrayFrom(ps, 1, TRUE)

ExpectedOperator(part) == PErr("ExpectedGot3", part.data)

\* the thresholds pratt_parser is entered with
Thresholds == {0, 1, 4, 6, 8, 14}

\* C8: an Ident, Literal, Lambda or Block that follows a completed left-hand
\* operand makes the loop return "expected operator, got <that expression>"
\* under every threshold, and parse_expr of a list with such a part fails:
\* with this error for the first such part, unless the parts before it
\* already fail on their own in the same way.
C8_OperandInOperatorSlot ==
    Parsed /\ Len(parts) >= 2 =>
        /\ \A i \in 2..Len(parts) : \A min_bp \in Thresholds :
               IsStray(parts[i]) /\ IntoOperand(parts[i - 1]).status = "ok"
                   => PrattLoop(parts, IntoOperand(parts[i - 1]).expr, i, min_bp).res
                          = ExpectedOperator(parts[i])
        /\ FirstStray(parts) > 0
               => /\ parsed.status \in {"err", "panic"}
                  /\ \/ parsed = ExpectedOperator(parts[FirstStray(parts)])
                     \/ /\ parsed = PrattParser(SubSeq(parts, 1, FirstStray(parts) - 1), 1, 0).res
                        /\ \/ parsed.status = "panic"
                           \/ parsed.err = "OperatorInsteadOfOperand"

\* `a . a 1`: the literal is met inside the right-hand side of `.`
C8_Witness ==
    /\ ppc = "parsed"
    /\ Len(parts) = 4
    /\ parts[2].kind = "Dot"
    /\ FirstStray(parts) = 4
    /\ parts[4].kind = "Literal"
    /\ parsed = ExpectedOperator(parts[4])

RECURSIVE SubExprs(_)
RECURSIVE SubExprsOf(_, _)
\* the expression and every expression below it
SubExprs(e) ==
    {e} \cup
    CASE e.kind \in {"ParenCall"} ->
            SubExprs(e.receiver) \cup SubExprsOf([j \in 1..Len(e.args) |-> e.args[j].expr], 1)
      [] e.kind = "TypeAscription" -> SubExprs(e.expr)
      [] e.kind = "MemberCall" -> SubExprs(e.receiver) \cup SubExprs(e.member)
      [] e.kind \in {"Operation", "ShortcircuitingOp", "Assignment"} ->
            SubExprs(e.lhs) \cup SubExprs(e.rhs)
      [] e.kind = "Block" -> SubExprsOf(e.exprs, 1)
      [] e.kind = "Tuple" -> SubExprsOf([j \in 1..Len(e.exprs) |-> e.exprs[j].expr], 1)
      [] e.kind = "Lambda" -> SubExprs(e.body)
      [] OTHER -> {}

SubExprsOf(es, i) ==
    IF i > Len(es) THEN {} ELSE SubExprs(es[i]) \cup SubExprsOf(es, i + 1)

IsOperatorName(e) == Len(ToOperator(e)) > 0

\* an operator-symbol Invokable stands as an operand of e
HasOperatorOperand(e) ==
    \/ e.kind \in {"Operation", "ShortcircuitingOp", "Assignment"}
           /\ (IsOperatorName(e.lhs) \/ IsOperatorName(e.rhs))
    \/ e.kind = "TypeAscription" /\ IsOperatorName(e.expr)

\* C9: no expression of two or more parts that parses has an operator-symbol
\* Invokable as the left or right operand of an operator, of `and`/`or`, on
\* either side of `=`, or as the subject of a type ascription.
C9_NoOperatorOperand ==
    Parsed /\ Len(parts) >= 2 /\ parsed.status = "ok"
        => \A e \in SubExprs(parsed.expr) : ~HasOperatorOperand(e)

\* the same, the right-hand side of `=` left out
C9_NoOperatorOperandButAssigned ==
    Parsed /\ Len(parts) >= 2 /\ parsed.status = "ok"
        => \A e \in SubExprs(parsed.expr) :
               HasOperatorOperand(e) => e.kind = "Assignment" /\ ~IsOperatorName(e.lhs)

\* an operation one of whose operands is an operation with another operator
Mixes(e) ==
    /\ e.kind = "Operation"
    /\ \E c \in {e.lhs, e.rhs} : c.kind = "Operation" /\ c.operator # e.operator

BlockRequired == VErr("OperationsRequireBlock", "")

LiteralExpr(l) == NewExpr([kind |-> "Literal", lit |-> l], [start |-> 0, end |-> 1])

OperationOf(op, lhs, rhs) ==
    NewExpr([kind |-> "Operation", operator |-> op, lhs |-> lhs, rhs |-> rhs],
            [start |-> 0, end |-> 1])

OperandsOnly(ps) ==
    \A i \in 1..Len(ps) : IsInvk(ps[i], "Operator") \/ ps[i].kind \in {"Literal", "Block"}

\* C10: an Operation with an Operation of another operator as its direct lhs
\* or rhs fails validation with OperationsRequireBlock, wherever in the
\* parsed expression it stands, and the expression as a whole fails; an
\* expression of literals, operators and blocks validates exactly when it
\* has no such Operation; `1 +x 2 +y 3` fails, `{1 +x 2} +y 3` and
\* `1 +x 2 +x 3` succeed.
C10_MixingRequiresBlock ==
    /\ Parsed /\ parsed.status = "ok"
           => \A e \in SubExprs(parsed.expr) :
                  Mixes(e) => ValidateOperation(e) = BlockRequired
    /\ \A o \in {"+x", "+y"} : \A u \in {"+x", "+y"} :
           LET inner == OperationOf(u, LiteralExpr("1"), LiteralExpr("2"))
           IN /\ ValidateExpr(OperationOf(o, LiteralExpr("3"), inner), "Other")
                     = IF o = u THEN VOk ELSE BlockRequired
              /\ ValidateExpr(OperationOf(o, inner, LiteralExpr("3")), "Other")
                     = IF o = u THEN VOk ELSE BlockRequired
    /\ ppc = "parsed" /\ parsed.status = "ok"
           => ((\E e \in SubExprs(parsed.expr) : Mixes(e))
                   => ~ValidateExpr(parsed.expr, "Other").ok)
    /\ ppc = "validated"
           => /\ (\E e \in SubExprs(parsed.expr) : Mixes(e)) => ~validated.ok
              /\ OperandsOnly(parts)
                     => validated = IF \E e \in SubExprs(parsed.expr) : Mixes(e)
                                        THEN BlockRequired ELSE VOk
              /\ parts = PlaceList(MixedOperators, 0) => validated = BlockRequired
              /\ parts = PlaceList(BlockThenOperator, 0) => validated = VOk
              /\ parts = PlaceList(SameOperator, 0) => validated = VOk

\* {1 +x 2 +y 3} +x 1: the mixing operation stands inside a block
C10_Witness ==
    /\ ppc = "validated"
    /\ parts = PlaceList(MixedInBlock, 0)
    /\ parsed.expr.kind = "Operation"
    /\ ~Mixes(parsed.expr)
    /\ \E e \in SubExprs(parsed.expr) : Mixes(e)
    /\ validated = BlockRequired

(***************************************************************************)
(* C11: the left-hand side of an assignment                                *)
(***************************************************************************)
\* a bare Invokable or a MemberCall whose name (the member's) is an Ident
\* that has no generics
IsPlaceExpr(e) ==
    /\ e.kind \in {"Invokable", "MemberCall"}
    /\ LET i == IF e.kind = "Invokable" THEN e ELSE e.member
       IN i.name.kind = "Ident" /\ Len(i.generics) = 0

\* C11: an expression passes validation only if the left-hand side of every
\* Assignment in it is a bare Invokable, or a MemberCall whose member name
\* is an Ident with no generics; an Assignment whose left-hand side is of any
\* other kind is rejected with the place-expression error naming that kind,
\* and one whose left-hand side is such a place is accepted when both sides
\* are valid by themselves (`x = 2`, `a.x = 2`).
C11_AssignmentNeedsPlace ==
    ppc = "validated" =>
        /\ validated.ok
               => \A e \in SubExprs(parsed.expr) :
                      e.kind = "Assignment" => IsPlaceExpr(e.lhs)
        /\ parsed.expr.kind = "Assignment"
               => /\ parsed.expr.lhs.kind \notin {"Invokable", "MemberCall"}
                         => validated = VErr("NoPlaceExpr", parsed.expr.lhs.kind)
                  /\ IsPlaceExpr(parsed.expr.lhs)
                         /\ ValidateExpr(parsed.expr.lhs, "Other").ok
                         /\ ValidateExpr(parsed.expr.rhs, "Other").ok
                         => validated.ok
        /\ parts = PlaceList(AssignMember, 0) => validated.ok
        /\ parts = PlaceList(AssignCall, 0) => validated = VErr("NoPlaceExpr", "ParenCall")
        /\ parts = PlaceList(AssignGeneric, 0) => validated = VErr("UnexpectedGenerics", "")
        /\ parts = PlaceList(AssignMemberGeneric, 0)
               => validated = VErr("UnexpectedGenerics", "")

\* 1 = 1 is parsed to an Assignment and refused for its Literal left-hand side
C11_Witness ==
    /\ ppc = "validated"
    /\ parts = PlaceList(<<Lit("1"), Conn("Equals"), Lit("1")>>, 0)
    /\ parsed.expr.kind = "Assignment"
    /\ parsed.expr.lhs.kind = "Literal"
    /\ validated = VErr("NoPlaceExpr", "Literal")

(***************************************************************************)
(* C12: named and unnamed arguments of a call                              *)
(***************************************************************************)
\* argument i of the call is named / is not
NamedArg(call, i) == call.args[i].name # ""

\* some named argument of the call stands before an unnamed one
UnnamedFollowsNamed(call) ==
    \E i \in 1..Len(call.args) : \E j \in 1..Len(call.args) :
        i < j /\ NamedArg(call, i) /\ ~NamedArg(call, j)

\* some unnamed argument of the call stands before a named one
NamedFollowsUnnamed(call) ==
    \E i \in 1..Len(call.args) : \E j \in 1..Len(call.args) :
        i < j /\ ~NamedArg(call, i) /\ NamedArg(call, j)

\* a call f(...) whose arguments are literals
PlainCall ==
    /\ ppc = "validated"
    /\ parsed.expr.kind = "ParenCall"
    /\ parsed.expr.receiver.kind = "Invokable"
    /\ \A i \in 1..Len(parsed.expr.args) : parsed.expr.args[i].expr.kind = "Literal"

\* C12 as stated: once a named argument has appeared, no unnamed argument
\* may follow it; a call such as `f(a: 1, 2)` is rejected by the validator
\* with the named-argument-after-unnamed error.
C12_UnnamedAfterNamedRejected ==
    PlainCall /\ UnnamedFollowsNamed(parsed.expr)
        => validated = VErr("NamedAfterUnnamed", "")

\* C12, amended: once an unnamed argument has appeared, no named argument
\* may follow it: a call of literal arguments is rejected with the
\* named-argument-after-unnamed error exactly when a named argument stands
\* after an unnamed one (`f(1, a: 2)`), and is accepted otherwise, `f(a: 1, 2)`
\* included; no expression that passes validation holds a call with a named
\* argument after an unnamed one.
C12_NamedAfterUnnamedRejected ==
    /\ PlainCall
           => validated = IF NamedFollowsUnnamed(parsed.expr)
                              THEN VErr("NamedAfterUnnamed", "") ELSE VOk
    /\ ppc = "validated" /\ validated.ok
           => \A e \in SubExprs(parsed.expr) :
                  e.kind = "ParenCall" => ~NamedFollowsUnnamed(e)

\* f(1, a: 1): the named argument after the unnamed one is refused
C12_Witness ==
    /\ PlainCall
    /\ Len(parsed.expr.args) = 2
    /\ ~NamedArg(parsed.expr, 1)
    /\ NamedArg(parsed.expr, 2)
    /\ validated = VErr("NamedAfterUnnamed", "")

(***************************************************************************)
(* Properties of parse                                                     *)
(***************************************************************************)
\* nothing but the EOF token is left in the cursor
OnlyEofLeft(l) == Len(l.tokens) = 1 /\ TokData(l.tokens[1]) = Eof

\* parse has returned, the items having been parsed without an error
ParseReturned == cpc = "done" /\ items.st = "some"

\* C13: parse returns success only when, after the items were parsed, nothing
\* but the EOF token is left in the cursor and the validation of the whole
\* item list succeeded, and it then returns that list; tokens that are left
\* give the remaining-tokens error, a validation failure is returned wrapped
\* as ValidationError, and neither returns an item list.
C13_SuccessOnlyWhenFinishedAndValid ==
    /\ cpc = "done" /\ result.status = "ok"
           => /\ items.st = "some"
              /\ OnlyEofLeft(lexer)
              /\ ValidateItems(items.val, 1).ok
              /\ result.items = items.val
    /\ ParseReturned /\ ~OnlyEofLeft(lexer)
           => /\ result.status = "err"
              /\ result.error.err = "RemainingTokens"
              /\ result.error.rest = [i \in 1..Len(lexer.tokens) |-> TokData(lexer.tokens[i])]
              /\ result.items = <<>>
    /\ ParseReturned /\ OnlyEofLeft(lexer) /\ ~ValidateItems(items.val, 1).ok
           => /\ result.status = "err"
              /\ result.error = ValidationError(ValidateItems(items.val, 1))
              /\ result.items = <<>>

\* a function with a body and a second item behind it were parsed and
\* validated, and only EOF was left
C13_Witness ==
    /\ cpc = "done"
    /\ result.status = "ok"
    /\ Len(result.items) = 2
    /\ result.items[1].kind = "Function"
    /\ OnlyEofLeft(lexer)

\* the tokens end with the only EOF token among them
EndsWithOnlyEof(tokens) ==
    /\ Len(tokens) > 0
    /\ \A i \in 1..Len(tokens) : (tokens[i].tag = "Eof") = (i = Len(tokens))

\* the last token of v is still the last token of the cursor's slice
SameEof(l) == Len(l.tokens) > 0 /\ l.tokens[Len(l.tokens)] = v[Len(v)]

\* C14: EOF is a permanent sentinel.  The tokens handed to parse end with
\* their only EOF token, and for every such slice every call of peek, eat and
\* next that parse makes finds a slice that is not empty, so that none of
\* them panics, no call moves the cursor over the EOF token, and the slice
\* that is left ends with that same EOF token.
C14_EofIsPermanentSentinel ==
    /\ lpc = "done" => EndsWithOnlyEof(v)
    /\ cpc # "idle"
           => /\ \A i \in 1..Len(lexer.ops) :
                     /\ lexer.ops[i].left >= 1
                     /\ ~(lexer.ops[i].moved /\ lexer.ops[i].tag = "Eof")
              /\ EndsWithOnlyEof(lexer.tokens)
              /\ SameEof(lexer)

\* the parser asked for a token when only EOF was left, and EOF stayed
C14_Witness ==
    /\ cpc = "done"
    /\ result.status = "ok"
    /\ \E i \in 1..Len(lexer.ops) : lexer.ops[i].op = "eat" /\ lexer.ops[i].tag = "Eof"
    /\ OnlyEofLeft(lexer)

(***************************************************************************)
(* Properties of the cursor                                                *)
(***************************************************************************)
\* the call that result' reports was made on a slice that is not empty
CallOf(op) == result'.op = op /\ Len(lexer.tokens) > 0

\* the cursor has moved over exactly one token / has not moved
Advanced == lexer'.tokens = Tail(lexer.tokens)
Stayed == lexer'.tokens = lexer.tokens

PeekFrame == CallOf("peek") => Stayed /\ result'.ret.val = lexer.tokens[1]

EatFrame ==
    CallOf("eat")
        => IF TokData(lexer.tokens[1]) = result'.asked
               THEN /\ Advanced
                    /\ result'.ret.st = "some"
                    /\ result'.ret.val = SpanOf(lexer.tokens[1])
               ELSE /\ Stayed
                    /\ result'.ret.st = "none"

ExpectFrame ==
    CallOf("expect")
        => IF TokData(lexer.tokens[1]) = result'.asked
               THEN /\ Advanced
                    /\ result'.ret.st = "some"
                    /\ result'.ret.val = SpanOf(lexer.tokens[1])
               ELSE /\ Stayed
                    /\ result'.ret.st = "err"
                    /\ result'.ret.val = ErrorOf("ExpectedGot", "", result'.asked,
                                                 TokData(lexer.tokens[1]))

\* C15: peek never moves the cursor; eat(expected) moves it over exactly one
\* token and returns that token's span if and only if the current token is
\* the expected one, and otherwise leaves the cursor where it is and returns
\* nothing; expect(expected) moves over exactly one token on a match and
\* otherwise returns the error ExpectedGot(expected, current token) with the
\* cursor where it was.
C15_CursorFrame == [][PeekFrame /\ EatFrame /\ ExpectFrame]_vars

\* one eat has moved the cursor, and the expect after it has failed and has
\* left the cursor on the last token before EOF
C15_Witness ==
    /\ cpc = "cursor"
    /\ result.op = "expect"
    /\ result.ret.st = "err"
    /\ Len(lexer.tokens) = 2
    /\ lexer.ops[1].op = "eat"
    /\ lexer.ops[1].moved

(***************************************************************************)
(* Properties of the item parser                                           *)
(***************************************************************************)
\* parse has returned for the text `fun foo() Bool { let x = 5 Int; x }`
FooParsed == cpc = "done" /\ text = FooText

\* the literal 5
IsFive(e) ==
    /\ e.kind = "Literal"
    /\ e.lit.tag = "NumberLit"
    /\ e.lit.sub = "Int"
    /\ ~e.lit.neg
    /\ e.lit.mag = [i \in 1..Len(ZeroMag) |-> IF i = 1 THEN 5 ELSE 0]

\* let x = TypeAscription(5, Int)
IsLetX(e) ==
    /\ e.kind = "Declaration"
    /\ e.decl_kind = "Let"
    /\ e.name = "x"
    /\ e.value.kind = "TypeAscription"
    /\ IsFive(e.value.expr)
    /\ e.value.ty.name = "Int"
    /\ e.value.ty.args = <<>>

\* a reference to x
IsRefX(e) ==
    /\ e.kind = "Invokable"
    /\ e.name = [kind |-> "Ident", id |-> "x"]
    /\ e.generics = <<>>

\* fun foo() Bool { ... } with the two entries of its body
IsFoo(f) ==
    /\ f.kind = "Function"
    /\ f.name = [kind |-> "Ident", id |-> "foo"]
    /\ f.generics = <<>>
    /\ f.args = <<>>
    /\ Len(f.return_ty) = 1
    /\ f.return_ty[1].name = "Bool"
    /\ f.return_ty[1].args = <<>>
    /\ Len(f.body) = 1
    /\ f.body[1].kind = "Block"
    /\ Len(f.body[1].exprs) = 2
    /\ IsLetX(f.body[1].exprs[1])
    /\ IsRefX(f.body[1].exprs[2])

HasSpanOfItsName(e) ==
    \E i \in 1..Len(v) :
        /\ v[i].tag \in {"Ident", "UpperIdent", "Operator"}
        /\ Intern(v[i].txt) = e.name.id
        /\ SpanOf(v[i]) = SpanOf(e)

\* the entries of the bodies of the functions among the items found
BodyEntries(found) ==
    UNION {{found[k].body[1].exprs[j] : j \in 1..Len(found[k].body[1].exprs)} :
              k \in {n \in 1..Len(found) :
                        found[n].kind = "Function" /\ Len(found[n].body) = 1}}

BodyDigits(t) == Filter(RunBody(t), "_")

\* the run without the underscores of its body
Stripped(t) == SubSeq(t, 1, Len(t) - Len(RunBody(t))) \o BodyDigits(t)

\* the body begins with, ends with, or is nothing but underscores
UnderscoreAtEdge(t) ==
    /\ Len(RunBody(t)) > 0
    /\ RunBody(t)[1] = "_" \/ RunBody(t)[Len(RunBody(t))] = "_"

\* the text is one integer run all of whose characters are digits of its
\* radix or underscores
CleanRun == lpc = "done" /\ IsIntegerRun(text) /\ BadAt(text) = {}

\* the digits of the run fit the literal's type
Fits(t) ==
    ParseIntDigits(IF SignLen(t) = 1 /\ t[1] = "+" THEN U64 ELSE I64,
                   SignLen(t) = 1 /\ t[1] = "-", BodyDigits(t), RunRadix(t)).ok

Alone(c) == \E pre \in Before : \E post \in Behind : text = pre \o <<c>> \o post

\* the tokens of the text are one Punctuation token and EOF
OnePunct(c) ==
    /\ Len(v) = 2
    /\ TokData(v[1]) = Punct(c)
    /\ v[1].end = v[1].start + 1
    /\ text[v[1].end] = c
    /\ v[2].tag = "Eof"

\* C19: each of the seventeen characters . , : ; = & | ? \ @ _ ( ) [ ] { },
\* when it stands alone between whitespace or the ends of the input, is
\* tokenized to a single Punctuation token, never to an Operator, an Ident
\* or an error token.
C19_AloneIsPunctuation ==
    lpc = "done" => \A c \in Punctuation : Alone(c) => OnePunct(c)

(***************************************************************************)
(* Properties of whitespace between tokens                                 *)
(***************************************************************************)
\* the tokens, those behind token i moved by n
Shifted(tokens, i, n) ==
    [k \in 1..Len(tokens) |->
        IF k <= i THEN tokens[k]
        ELSE Spanned(TokData(tokens[k]), tokens[k].start + n, tokens[k].end + n)]

\* the text has been lexed, changed, and lexed again
LexedAgain == lpc = "done" /\ given # NoGiven

\* a string literal of the text is left open: how far the scanner's error
\* token reaches then is not fixed by lex()
LeftOpen(t, tokens) ==
    \E k \in 1..Len(tokens) :
        /\ tokens[k].tag = "Error"
        /\ tokens[k].sub = "Unexpected"
        /\ t[tokens[k].start + 1] = "\""

AllFunctions(found) ==
    {found[i] : i \in {j \in 1..Len(found) : found[j].kind = "Function"}}
        \cup UNION {{found[i].items[k] :
                        k \in {j \in 1..Len(found[i].items) :
                                   found[i].items[j].kind = "Function"}} :
                    i \in {j \in 1..Len(found) : found[j].kind = "Impl"}}

\* the parameters without a default that follow a parameter with a default
Misplaced(args) ==
    {j \in 1..Len(args) :
        /\ Len(args[j].default) = 0
        /\ \E i \in 1..(j - 1) : Len(args[i].default) > 0}

\* the first of them
FirstMisplaced(args) == CHOOSE j \in Misplaced(args) : \A k \in Misplaced(args) : j <= k

\* no check made before the order of args[j] is looked at fails: the
\* parameters up to it declare a type and the defaults before it validate
CleanUpTo(args, j) ==
    /\ \A k \in 1..j : Len(args[k].ty) > 0
    /\ \A k \in 1..(j - 1) :
           Len(args[k].default) > 0 => ValidateExpr(args[k].default[1], "Other").ok

\* parse has returned and the first item it found is a function
FunctionParsed ==
    /\ ParseReturned
    /\ OnlyEofLeft(lexer)
    /\ Len(items.val) > 0
    /\ items.val[1].kind = "Function"

\* parse has returned a validation error named e
RejectedWith(e) ==
    /\ result.status = "err"
    /\ result.error.err = "ValidationError"
    /\ result.error.what = e

\* C21 (as stated): the validator rejects a function with
\* NoDefaultAfterDefault if and only if some parameter without a default
\* comes after a parameter with a default.
C21_RejectedIffMisplaced ==
    FunctionParsed /\ Len(items.val) = 1
        => (RejectedWith("NoDefaultAfterDefault")
                <=> Misplaced(items.val[1].args) # {})

\* C21 (amended): a function with a parameter without a default after a
\* parameter with a default is always rejected, and it is rejected with
\* NoDefaultAfterDefault if and only if no earlier check fails first, that is
\* every parameter up to the first such one declares a type and the defaults
\* before it validate; a function whose defaulted parameters form a suffix
\* never gets NoDefaultAfterDefault.
C21_MisplacedRejectedUnlessPreempted ==
    /\ ParseReturned /\ OnlyEofLeft(lexer)
           => \A f \in AllFunctions(items.val) :
                  /\ Misplaced(f.args) # {} => ~ValidateFunction(f, "Complete").ok
                  /\ ValidateFunction(f, "Complete").err = "NoDefaultAfterDefault"
                         <=> /\ Misplaced(f.args) # {}
                             /\ CleanUpTo(f.args, FirstMisplaced(f.args))
    /\ FunctionParsed
           => /\ Misplaced(items.val[1].args) # {} => result.status = "err"
              /\ (/\ Misplaced(items.val[1].args) # {}
                  /\ CleanUpTo(items.val[1].args, FirstMisplaced(items.val[1].args)))
                     => RejectedWith("NoDefaultAfterDefault")
              /\ Len(items.val) = 1 /\ RejectedWith("NoDefaultAfterDefault")
                     => Misplaced(items.val[1].args) # {}

\* a function of three typed parameters, the second with a default and the
\* third without, was rejected with NoDefaultAfterDefault
C21_Witness ==
    /\ FunctionParsed
    /\ Len(items.val[1].args) = 3
    /\ Len(items.val[1].args[1].default) = 0
    /\ Len(items.val[1].args[2].default) > 0
    /\ Misplaced(items.val[1].args) = {3}
    /\ RejectedWith("NoDefaultAfterDefault")

(***************************************************************************)
(* Functions declare a return type and a body                              *)
(***************************************************************************)
\* the function the validation of the items found stops at or ends with: the
\* first function, nested ones included, that does not validate
FirstInvalid(found) ==
    LET i == CHOOSE j \in 1..Len(found) :
                 /\ ~ValidateItem(found[j]).ok
                 /\ \A k \in 1..(j - 1) : ValidateItem(found[k]).ok
    IN  IF found[i].kind = "Function" THEN found[i]
        ELSE found[i].items[CHOOSE j \in 1..Len(found[i].items) :
                                /\ ~ValidateItem(found[i].items[j]).ok
                                /\ \A k \in 1..(j - 1) :
                                       ValidateItem(found[i].items[k]).ok]

\* parse found items and a function among them is the first thing that does
\* not validate
FunctionRefused ==
    /\ ParseReturned
    /\ OnlyEofLeft(lexer)
    /\ ~ValidateItems(items.val, 1).ok
    /\ \A i \in 1..Len(items.val) :
           items.val[i].kind = "Impl" => ForbiddenItems(items.val[i].items).ok

At01 == [start |-> 0, end |-> 1]

NameExpr(id) ==
    NewExpr([kind |-> "Invokable", name |-> [kind |-> "Ident", id |-> id],
             generics |-> <<>>], At01)

\* FunCallArgument { name, expr }
Argument(name, e) == [name |-> name, expr |-> e, start |-> 0, end |-> 1]

ParenCallOf(receiver, args) ==
    NewExpr([kind |-> "ParenCall", receiver |-> receiver, args |-> args], At01)

MemberCallOf(receiver, member) ==
    NewExpr([kind |-> "MemberCall", receiver |-> receiver, member |-> member], At01)

AssignmentOf(lhs, rhs) == NewExpr([kind |-> "Assignment", lhs |-> lhs, rhs |-> rhs], At01)

\* `1 = 2`, which does not validate: its left-hand side is no place
BadAssignment == AssignmentOf(LiteralExpr("1"), LiteralExpr("2"))

BlockOfExprs(exprs) == NewExpr([kind |-> "Block", exprs |-> exprs], At01)

\* an expression of every kind but Match that validates
ValidReceivers ==
    {NameExpr("x"),
     LiteralExpr("1"),
     ParenCallOf(NameExpr("f"), <<>>),
     MemberCallOf(NameExpr("x"), NameExpr("f")),
     NewExpr([kind |-> "Lambda", args |-> <<>>, body |-> BlockOfExprs(<<>>)], At01),
     BlockOfExprs(<<LiteralExpr("1")>>),
     NewExpr([kind |-> "Tuple", exprs |-> <<Argument("", LiteralExpr("1"))>>], At01),
     OperationOf("+x", LiteralExpr("1"), LiteralExpr("2")),
     AssignmentOf(NameExpr("x"), LiteralExpr("1")),
     NewExpr([kind |-> "TypeAscription", expr |-> NameExpr("x"),
              ty |-> [name |-> "T", args |-> <<>>]], At01),
     NewExpr([kind |-> "Statement", expr |-> LiteralExpr("1")], At01),
     NewExpr([kind |-> "Empty"], At01),
     NewExpr([kind |-> "ShortcircuitingOp", operator |-> "And",
              lhs |-> LiteralExpr("1"), rhs |-> LiteralExpr("2")], At01),
     NewExpr([kind |-> "Declaration", decl_kind |-> "Let", name |-> "x",
              value |-> LiteralExpr("1")], At01)}

\* an expression of every kind that can fail to validate, and does
InvalidReceivers ==
    {ParenCallOf(BadAssignment, <<>>),
     MemberCallOf(BadAssignment, NameExpr("f")),
     NewExpr([kind |-> "Lambda", args |-> <<>>,
              body |-> BlockOfExprs(<<BadAssignment>>)], At01),
     BlockOfExprs(<<BadAssignment>>),
     NewExpr([kind |-> "Tuple", exprs |-> <<Argument("a", LiteralExpr("1"))>>], At01),
     OperationOf("+x", LiteralExpr("1"),
                 OperationOf("+y", LiteralExpr("2"), LiteralExpr("3"))),
     BadAssignment,
     NewExpr([kind |-> "TypeAscription", expr |-> BadAssignment,
              ty |-> [name |-> "T", args |-> <<>>]], At01),
     NewExpr([kind |-> "Statement", expr |-> BadAssignment], At01),
     NewExpr([kind |-> "ShortcircuitingOp", operator |-> "And",
              lhs |-> BadAssignment, rhs |-> LiteralExpr("2")], At01),
     NewExpr([kind |-> "Declaration", decl_kind |-> "Let", name |-> "x",
              value |-> BadAssignment], At01)}

\* the argument lists of the calls
ArgumentLists ==
    {<<>>,
     <<Argument("", LiteralExpr("1"))>>,
     <<Argument("a", LiteralExpr("1")), Argument("", LiteralExpr("2"))>>,
     <<Argument("", LiteralExpr("1")), Argument("a", LiteralExpr("2"))>>,
     <<Argument("", BadAssignment)>>}

\* the calls of a receiver
CallsOn(receiver) ==
    {ParenCallOf(receiver, args) : args \in ArgumentLists}
        \cup {MemberCallOf(receiver, NameExpr("f"))}

InitCall ==
    /\ LexIdle
    /\ parts = NoParts
    /\ \E receiver \in ValidReceivers \cup InvalidReceivers :
           \E call \in CallsOn(receiver) : parsed = POk(call)
    /\ ppc = "parsed"
    /\ validated = NoResult
    /\ ParseIdle

SpecCall == InitCall /\ [][Validate]_vars

\* the kinds of receiver that are not allowed, and the kinds that are
RefusedReceivers ==
    {"Operation", "Assignment", "TypeAscription", "Statement", "Empty",
     "ShortcircuitingOp", "Declaration"}

AllowedReceivers ==
    {"Invokable", "Literal", "ParenCall", "MemberCall", "Lambda", "Block", "Tuple"}

\* a call has been validated
CallValidated ==
    /\ ppc = "validated"
    /\ Len(parts) = 0
    /\ parsed.expr.kind \in {"ParenCall", "MemberCall"}

\* the error of the receiver check of the call e
ReceiverError(e) ==
    IF e.kind = "ParenCall" THEN "InvalidCallReceiver" ELSE "InvalidMemberReceiver"

\* C23: validation rejects every ParenCall and every MemberCall whose
\* receiver is an Operation, Assignment, TypeAscription, Statement, Empty,
\* short-circuiting operation or Declaration, with InvalidCallReceiver or
\* InvalidMemberReceiver of that kind when the receiver validates by itself;
\* a receiver of another kind (Invokable, Literal, ParenCall, MemberCall,
\* Lambda, Block, Tuple) that validates passes the check: a MemberCall of it
\* is accepted and a ParenCall of it gets the verdict of its arguments.
C23_ReceiverCheck ==
    CallValidated
        => /\ parsed.expr.receiver.kind \in RefusedReceivers \cup AllowedReceivers
           /\ parsed.expr.receiver.kind \in RefusedReceivers
                  => /\ ~validated.ok
                     /\ ValidateExpr(parsed.expr.receiver, "Other").ok
                            => validated = VErr(ReceiverError(parsed.expr),
                                                parsed.expr.receiver.kind)
           /\ (/\ parsed.expr.receiver.kind \in AllowedReceivers
               /\ ValidateExpr(parsed.expr.receiver, "Other").ok)
                  => /\ validated.err \notin {"InvalidCallReceiver", "InvalidMemberReceiver"}
                     /\ parsed.expr.kind = "MemberCall" => validated.ok
                     /\ parsed.expr.kind = "ParenCall"
                            => validated = ValidateCallArgs(parsed.expr.args, 1, FALSE)
                     /\ parsed.expr.kind = "ParenCall" /\ Len(parsed.expr.args) <= 1
                            /\ (\A i \in 1..Len(parsed.expr.args) :
                                    parsed.expr.args[i].expr.kind = "Literal")
                            => validated.ok

\* a member call on a type ascription that validates was rejected with
\* InvalidMemberReceiver
C23_Witness ==
    /\ CallValidated
    /\ parsed.expr.kind = "MemberCall"
    /\ parsed.expr.receiver.kind = "TypeAscription"
    /\ ValidateExpr(parsed.expr.receiver, "Other").ok
    /\ validated = VErr("InvalidMemberReceiver", "TypeAscription")

(***************************************************************************)
(* parse_expr on a cursor: ExprData::parse is called once with a Lexer of  *)
(* a few tokens and EOF                                                    *)
(***************************************************************************)
MaxTokens == 3

\* the tokens of the slices parse_expr is called with
ExprTokens ==
    {Kw(<<"a", "n", "d">>), Punct("."), Punct("="), Data("Ident", "", <<"x">>),
     Data("Operator", "", <<"+">>), Punct(";"), Punct(","), Punct("|"),
     Punct("("), Punct(")"), Punct("{"), Punct("}")}

ExprSlices == {SliceOf(data) : data \in SeqsUpTo(ExprTokens, MaxTokens)}

InitParseExpr ==
    /\ LexIdle
    /\ parts = NoParts
    /\ ppc = "idle"
    /\ parsed = NoResult
    /\ validated = NoResult
    /\ items = NoResult
    /\ lexer \in {FromTokens(s) : s \in ExprSlices}
    /\ result = NoCall
    /\ cpc = "cursor"

\* parse_expr(lexer): ExprData::parse on the caller's cursor
ParseExprCall ==
    /\ cpc = "cursor"
    /\ lexer' = ExprDataParse(lexer).lex
    /\ result' = [op |-> "parse_expr", asked |-> NoTok, ret |-> ExprDataParse(lexer)]
    /\ cpc' = "done"
    /\ UNCHANGED items
    /\ UNCHANGED lexVars
    /\ UNCHANGED exprVars

SpecParseExpr == InitParseExpr /\ [][ParseExprCall]_vars

\* C24: whenever parse_expr returns "no match", the cursor is where it was
\* before the call; a bare connective (`and`, `or`, `.`, `=`) that is the
\* only fragment found has not been taken from the caller's cursor.
C24_NoMatchLeavesCursor ==
    [][ParseExprCall /\ result'.ret.st = "none" => lexer'.tokens = lexer.tokens]_vars

(***************************************************************************)
(* What parse ends with                                                    *)
(***************************************************************************)
\* C25: parse never aborts: it returns Ok or an Err value for the tokens of
\* every text; an expression that starts with a bare connective, a `.` whose
\* right-hand side is no Invokable and a lambda's parameter list without a
\* body give an error result.
C25_ParseNeverPanics == cpc = "done" => result.status \in {"ok", "err"}

(***************************************************************************)
(* Delimited lists: parse_type_arguments (enclose_multiple) and            *)
(* Parens::parse are called once on a cursor                               *)
(***************************************************************************)
MaxList == 5

\* `[`, `]`, `,` and a type name; `(`, `)`, `,` and a variable
BracketTokens == {Punct("["), Punct("]"), Punct(","), Data("UpperIdent", "", <<"T">>)}
ParenTokens == {Punct("("), Punct(")"), Punct(","), Data("Ident", "", <<"x">>)}

ListSlices ==
    {SliceOf(data) : data \in SeqsUpTo(BracketTokens, MaxList)}
        \cup {SliceOf(data) : data \in SeqsUpTo(ParenTokens, MaxList)}

InitEnclose ==
    /\ LexIdle
    /\ parts = NoParts
    /\ ppc = "idle"
    /\ parsed = NoResult
    /\ validated = NoResult
    /\ items = NoResult
    /\ lexer \in {FromTokens(s) : s \in ListSlices}
    /\ result = NoCall
    /\ cpc = "cursor"

\* the parser op, called with the cursor, has returned ret
ListReturns(op, right, ret) ==
    /\ cpc = "cursor"
    /\ lexer' = ret.lex
    /\ result' = [op |-> op, asked |-> right, ret |-> ret]
    /\ cpc' = "done"
    /\ UNCHANGED items
    /\ UNCHANGED lexVars
    /\ UNCHANGED exprVars

\* parse_type_arguments(lexer)
TypeArgumentsCall ==
    ListReturns("parse_type_arguments", Punct("]"), Bracketed(lexer, TypeArgumentParse))

\* Parens::parse(lexer)
ParensCall == ListReturns("Parens::parse", Punct(")"), ParensPart(lexer))

NextEnclose == TypeArgumentsCall \/ ParensCall

SpecEnclose == InitEnclose /\ [][NextEnclose]_vars

\* the number of tokens the call has taken from the cursor
Taken == Len(lexer.tokens) - Len(lexer'.tokens)

\* C26: a delimited list is accepted with no or with exactly one trailing
\* separator before the closing delimiter, and a list followed by two
\* separators, `[T,,]` or `(a,,)`, is a hard error; after a successful parse
\* the cursor is just past the closing delimiter.
C26_AtMostOneTrailingSeparator ==
    [][NextEnclose /\ result'.ret.st = "some"
           => /\ Taken >= 2
              /\ lexer'.tokens = SubSeq(lexer.tokens, Taken + 1, Len(lexer.tokens))
              /\ TokData(lexer.tokens[Taken]) = result'.asked
              /\ \A i \in 1..(Taken - 1) :
                     ~(/\ TokData(lexer.tokens[i]) = Punct(",")
                       /\ TokData(lexer.tokens[i + 1]) = Punct(","))]_vars

(***************************************************************************)
(* Balanced brackets (fuzzer: is_balanced)                                 *)
(***************************************************************************)
\* the Bracket a punctuation token opens, or ""
Opens(tok) ==
    CASE TokData(tok) = Punct("(") -> "Round"
      [] TokData(tok) = Punct("[") -> "Square"
      [] TokData(tok) = Punct("{") -> "Curly"
      [] OTHER -> ""

\* the Bracket a punctuation token closes, or ""
Closes(tok) ==
    CASE TokData(tok) = Punct(")") -> "Round"
      [] TokData(tok) = Punct("]") -> "Square"
      [] TokData(tok) = Punct("}") -> "Curly"
      [] tok.tag = "Eof" -> "EOF"
      [] OTHER -> ""

\* OpenBrackets::last, "" for the error "no open brackets"
LastOpen(open) == IF Len(open) = 0 THEN "" ELSE open[Len(open)]

RECURSIVE BalancedFrom(_, _, _, _)
\* the `for token in tokens` of is_balanced from token i on, and expect_empty
BalancedFrom(tokens, i, open, eof) ==
    IF i > Len(tokens)
        THEN IF Len(open) = 0 THEN VOk ELSE VErr("remaining open brackets", "")
    ELSE IF TokData(tokens[i]) = Punct("|")
        THEN IF LastOpen(open) = "" THEN VErr("no open brackets", "")
             ELSE IF LastOpen(open) = "Pipe"
                 THEN BalancedFrom(tokens, i + 1, SubSeq(open, 1, Len(open) - 1), eof)
             ELSE BalancedFrom(tokens, i + 1, Append(open, "Pipe"), eof)
    ELSE IF Opens(tokens[i]) # ""
        THEN BalancedFrom(tokens, i + 1, Append(open, Opens(tokens[i])), eof)
    ELSE IF tokens[i].tag = "Eof" /\ eof THEN VErr("token after EOF", "")
    ELSE IF Closes(tokens[i]) # ""
        THEN IF LastOpen(open) = "" THEN VErr("no open brackets", "")
             ELSE IF LastOpen(open) = Closes(tokens[i])
                 THEN BalancedFrom(tokens, i + 1, SubSeq(open, 1, Len(open) - 1),
                                   eof \/ tokens[i].tag = "Eof")
             ELSE VErr("Unexpected closing bracket", "")
    ELSE BalancedFrom(tokens, i + 1, open, eof)

\* is_balanced(tokens)
IsBalanced(tokens) == BalancedFrom(tokens, 1, <<"EOF">>, FALSE)

\* program.errors().is_empty()
NoErrorTokens(tokens) == \A i \in 1..Len(tokens) : tokens[i].tag # "Error"

\* C27: when parse returns success for tokens without a lex error that end
\* with their only EOF token, the tokens are balanced as is_balanced has it:
\* every `(`, `[`, `{` is closed by its closer in nested order, the `|`
\* tokens pair up, and nothing is open at EOF.
C27_ParsedTokensAreBalanced ==
    cpc = "done" /\ result.status = "ok" /\ NoErrorTokens(v) /\ EndsWithOnlyEof(v)
        => IsBalanced(v).ok

\* a program with `(`, `[`, `{` and a lambda's `|` was parsed
C27_Witness ==
    /\ cpc = "done"
    /\ result.status = "ok"
    /\ NoErrorTokens(v)
    /\ \A c \in {"(", "[", "{", "|"} : \E i \in 1..Len(v) : TokData(v[i]) = Punct(c)
    /\ IsBalanced(v).ok

(***************************************************************************)
(* The loops of the parser, one iteration a step: the `while let` of       *)
(* parse_items, the `while let` of ExprData::parse and the `loop` of       *)
(* vec_separated, each on a cursor of a few tokens and EOF                 *)
(***************************************************************************)
MaxItemTokens == 6

\* the tokens of `use x.x;`
ItemTokens ==
    {Kw(<<"u", "s", "e">>), Data("Ident", "", <<"x">>), Punct("."), Punct(";")}

ItemSlices == {SliceOf(data) : data \in SeqsUpTo(ItemTokens, MaxItemTokens)}

ArgumentSlices == {SliceOf(data) : data \in SeqsUpTo(ParenTokens, MaxList)}

InitLoops ==
    /\ LexIdle
    /\ parts = NoParts
    /\ ppc = "idle"
    /\ parsed = NoResult
    /\ validated = NoResult
    /\ ParseIdle
    /\ cpc = "idle"

\* the function whose loop is at pc is called with the cursor on a slice
LoopEntered(pc, slices) ==
    /\ cpc = "idle"
    /\ lexer' \in {FromTokens(s) : s \in slices}
    /\ items' = Got(<<>>, lexer')
    /\ cpc' = pc
    /\ result' = result
    /\ UNCHANGED lexVars
    /\ UNCHANGED exprVars

\* parse_items(), ExprData::parse(lexer) and
\* vec_separated(lexer, FunCallArgument::parse, Punctuation::Comma) are called
ParseItemsCalled == LoopEntered("item_loop", ItemSlices)
ParseExprCalled == LoopEntered("fragment_loop", ExprSlices)
VecSeparatedCalled == LoopEntered("list_first", ArgumentSlices)

\* the loop goes on with what was found added to the results
GoesOn(found) ==
    /\ items' = Got(Append(items.val, found.val), found.lex)
    /\ lexer' = found.lex
    /\ cpc' = cpc
    /\ result' = result

\* the loop is left, the function returns ret: items holds what is returned as
\* its one value
LoopReturns(ret) ==
    /\ items' = [ret EXCEPT !.val = <<ret.val>>]
    /\ lexer' = ret.lex
    /\ cpc' = "done"
    /\ result' = result

\* an iteration of `while let Some(result) = Item::parse(self)?` of parse_items
ItemStep ==
    /\ cpc = "item_loop"
    /\ IF ItemParse(lexer).st = "some" THEN GoesOn(ItemParse(lexer))
       ELSE IF ItemParse(lexer).st = "none"
           THEN /\ items' = Got(items.val, ItemParse(lexer).lex)
                /\ lexer' = ItemParse(lexer).lex
                /\ cpc' = "items"
                /\ result' = result
       ELSE /\ LoopReturns(ItemParse(lexer))
    /\ UNCHANGED lexVars
    /\ UNCHANGED exprVars

\* an iteration of `while let Some(part) = ExprPart::parse(lexer)?` of
\* ExprData::parse, and what follows the loop
FragmentStep ==
    /\ cpc = "fragment_loop"
    /\ IF ExprPartParse(lexer).st \in {"err", "panic"} THEN LoopReturns(ExprPartParse(lexer))
       ELSE IF ExprPartParse(lexer).st = "none"
           THEN LoopReturns(FromParts(ParseExprData(items.val), ExprPartParse(lexer).lex))
       ELSE IF Len(ExprPartParse(lexer).lex.tokens) = Len(lexer.tokens)
           THEN LoopReturns(ExpectedGot2("expression", LexerPeek(ExprPartParse(lexer).lex)))
       ELSE GoesOn(ExprPartParse(lexer))
    /\ UNCHANGED lexVars
    /\ UNCHANGED exprVars

\* `let first = uoret!(f(&mut lexer_clone)?)` of vec_separated, f being
\* FunCallArgument::parse: the cursor is the clone from here on
ListFirst ==
    /\ cpc = "list_first"
    /\ IF FunCallArgumentParse(lexer).st = "some"
          THEN /\ items' = Got(<<FunCallArgumentParse(lexer).val>>,
                               FunCallArgumentParse(lexer).lex)
               /\ lexer' = FunCallArgumentParse(lexer).lex
               /\ cpc' = "list_loop"
               /\ result' = result
          ELSE LoopReturns(OnClone(FunCallArgumentParse(lexer), lexer))
    /\ UNCHANGED lexVars
    /\ UNCHANGED exprVars

\* an iteration of the `loop` of vec_separated, the separator being `,`
SeparatedStep ==
    /\ cpc = "list_loop"
    /\ IF LexerEat(lexer, Punct(",")).st # "some"
          THEN LoopReturns(Got(Listed(items.val, MergeAll(items.val, 1)),
                               LexerEat(lexer, Punct(",")).lex))
       ELSE IF FunCallArgumentParse(LexerEat(lexer, Punct(",")).lex).st = "some"
          THEN GoesOn(FunCallArgumentParse(LexerEat(lexer, Punct(",")).lex))
       ELSE IF FunCallArgumentParse(LexerEat(lexer, Punct(",")).lex).st = "none"
          THEN LoopReturns(Got(Listed(items.val, MergeAll(items.val, 1)),
                               FunCallArgumentParse(LexerEat(lexer, Punct(",")).lex).lex))
       ELSE LoopReturns(FunCallArgumentParse(LexerEat(lexer, Punct(",")).lex))
    /\ UNCHANGED lexVars
    /\ UNCHANGED exprVars

NextLoops ==
    \/ ParseItemsCalled \/ ParseExprCalled \/ VecSeparatedCalled
    \/ ItemStep \/ FragmentStep \/ ListFirst \/ SeparatedStep
    \/ Finish \/ ValidateResults

\* the thread that runs the parser takes its next step as long as there is
\* one: WF_vars(NextLoops), in which ENABLED <<NextLoops>>_vars is written as
\* what it comes to, that the call has not returned
RunsOn == []<>(cpc = "done") \/ []<><<NextLoops>>_vars

SpecLoops == InitLoops /\ [][NextLoops]_vars /\ RunsOn

\* a step after which the same loop makes another iteration
Repeats == cpc \in {"item_loop", "fragment_loop", "list_loop"} /\ cpc' = cpc

\* C28: on every slice of tokens that ends with EOF the call of the parser
\* comes to an end, by a return or by the abort of an arm that is not written
\* yet; an iteration of the loop over the fragments, of the loop over the
\* items and of the loop of a separated list after which the loop goes on has
\* taken at least one token, and an iteration over the fragments that finds a
\* fragment and leaves the length of the cursor as it was ends with a hard
\* error.
C28_LoopsTerminate ==
    /\ <>(cpc = "done")
    /\ [][/\ Repeats => Len(lexer'.tokens) < Len(lexer.tokens)
          /\ (/\ cpc = "fragment_loop"
              /\ ExprPartParse(lexer).st = "some"
              /\ Len(ExprPartParse(lexer).lex.tokens) = Len(lexer.tokens))
                 => cpc' = "done" /\ items'.st = "err"]_vars

\* the loop over the items has found `use x;` twice and has come to an end
C28_Witness ==
    /\ cpc = "done"
    /\ result.status = "ok"
    /\ Len(result.items) = 2
    /\ OnlyEofLeft(lexer)

(***************************************************************************)
(* The shape of the trees pratt_parser returns                             *)
(***************************************************************************)
\* the kinds made from an infix part that is no `.`
OperationKinds == {"Operation", "ShortcircuitingOp", "Assignment"}

\* what pratt_parser has put below e is of a kind e's binding powers allow
WellNested(e) ==
    CASE e.kind = "Operation" ->
            e.rhs.kind \notin OperationKinds /\ e.lhs.kind \notin {"ShortcircuitingOp", "Assignment"}
      [] e.kind \in {"ParenCall", "MemberCall"} -> e.receiver.kind \notin OperationKinds
      [] e.kind = "TypeAscription" -> e.expr.kind \notin OperationKinds
      [] e.kind = "ShortcircuitingOp" -> e.lhs.kind # "Assignment" /\ e.rhs.kind # "Assignment"
      [] e.kind = "Assignment" -> e.lhs.kind # "Assignment"
      [] OTHER -> TRUE

\* C29: in a tree the precedence-climbing parser has returned, the right-hand
\* side of an Operation is no Operation, ShortcircuitingOp or Assignment, its
\* left-hand side no ShortcircuitingOp or Assignment, the receiver of a
\* ParenCall or MemberCall and the subject of a TypeAscription no Operation,
\* ShortcircuitingOp or Assignment, and an Assignment stands only at the root
\* of a tree or as the right-hand side of an Assignment; so the validation of
\* such a tree never ends with InvalidOperand, nor with InvalidCallReceiver or
\* InvalidMemberReceiver of one of these three kinds.
C29_TreesAreWellNested ==
    /\ (ppc \in {"parsed", "validated"} /\ parsed.status = "ok")
          => \A e \in SubExprs(parsed.expr) : WellNested(e)
    /\ ppc = "validated"
          => /\ validated.err # "InvalidOperand"
             /\ validated.err \in {"InvalidCallReceiver", "InvalidMemberReceiver"}
                   => validated.kind \notin OperationKinds

\* `a + a(b) and a`, validated: the call is taken into the right-hand side of
\* `+` and the Operation is the left-hand side of `and`
C29_Witness ==
    /\ ppc = "validated"
    /\ parsed.expr.kind = "ShortcircuitingOp"
    /\ parsed.expr.lhs.kind = "Operation"
    /\ parsed.expr.lhs.rhs.kind = "ParenCall"
    /\ parsed.expr.rhs.kind = "Invokable"

(***************************************************************************)
(* Runs of word-class tokens                                               *)
(***************************************************************************)
\* the scanner's match at offset p of t is a token lex() takes as a word
WordAt(t, p) ==
    /\ p < Len(t)
    /\ NextIToken(t, p).len > 0
    /\ IsWord(TokenOf(NextIToken(t, p).kind, Slice(t, p, p + NextIToken(t, p).len)))

RECURSIVE WordsBetween(_, _, _)
\* how many word-class tokens the scanner yields from offset p up to offset
\* q with nothing else between them, and -1 when that is not what it yields
WordsBetween(t, p, q) ==
    IF p = q THEN 0
    ELSE IF p > q \/ ~WordAt(t, p) THEN -1
    ELSE IF WordsBetween(t, p + NextIToken(t, p).len, q) < 0 THEN -1
    ELSE WordsBetween(t, p + NextIToken(t, p).len, q) + 1

IsNoWs(tok) == tok.tag = "Error" /\ tok.sub = "NoWs"

\* C30: a token of the output that is a NoWs error spans two or more
\* word-class tokens the scanner has yielded with nothing between them, from
\* the start of the first to the end of the last, a word-class token of the
\* output spans one, and no two such tokens of the output touch: a run of
\* word-class tokens as long as it can be is one token of the output.  While
\* lex runs, was_word is set exactly when the last token of the output is such
\* a token and ends where the scanner stands, so that it is cleared by
\* whitespace, by a comment or by a token that is no word and by nothing else,
\* and the pop of a merge finds a token.
C30_RunsBecomeOneToken ==
    /\ lpc # "panic"
    /\ \A i \in 1..Len(v) :
           /\ IsNoWs(v[i]) => WordsBetween(text, v[i].start, v[i].end) >= 2
           /\ IsWord(v[i]) => WordsBetween(text, v[i].start, v[i].end) = 1
    /\ \A i \in 1..(Len(v) - 1) :
           (/\ IsNoWs(v[i]) \/ IsWord(v[i])
            /\ IsNoWs(v[i + 1]) \/ IsWord(v[i + 1]))
               => v[i].end < v[i + 1].start
    /\ lpc = "scan"
           => was_word = (/\ Len(v) > 0
                          /\ IsNoWs(v[Len(v)]) \/ IsWord(v[Len(v)])
                          /\ v[Len(v)].end = pos)

\* a text of three word-class tokens with nothing between them has become one
\* NoWs token and Eof
C30_Witness ==
    /\ lpc = "done"
    /\ WordsBetween(text, 0, Len(text)) = 3
    /\ Len(v) = 2
    /\ IsNoWs(v[1])
    /\ v[1].start = 0
    /\ v[1].end = Len(text)

====
